---- MODULE Spec2Model ----
(***************************************************************************)
(* Universal Reranker: the process-wide result cache, the fingerprint      *)
(* function, the result processor and the two rerank orchestration         *)
(* functions (rerankWithOpenAI, rerankWithCohere) of                       *)
(* nodes/shared/rerank.helpers.ts.                                         *)
(*                                                                         *)
(* JavaScript values are tagged records.  A string is a sequence of        *)
(* character codes.  Scores and thresholds are numbers in tenths           *)
(* (0.9 is written 9).  Date.now() is in milliseconds.                     *)
(***************************************************************************)
EXTENDS Integers, Sequences, FiniteSets, TLC

(***************************************************************************)
(* JavaScript values                                                       *)
(***************************************************************************)
Undefined == [t |-> "undefined"]

Null == [t |-> "null"]

Num(n) == [t |-> "number", n |-> n]

Str(s) == [t |-> "string", s |-> s]

Bool(b) == [t |-> "boolean", b |-> b]

Obj(fields) == [t |-> "object", fields |-> fields]

\* a property value that is the object holding the property: o.self = o
Cycle == [t |-> "cycle"]

Arr(items) == [t |-> "array", items |-> items]

\* a property of an object literal
P(k, v) == [k |-> k, v |-> v]

\* JavaScript truthiness (ToBoolean)
Truthy(v) ==
  CASE v.t = "undefined" -> FALSE
    [] v.t = "null" -> FALSE
    [] v.t = "number" -> v.n # 0
    [] v.t = "string" -> v.s # << >>
    [] v.t = "boolean" -> v.b
    [] OTHER -> TRUE

\* a || b
Or(a, b) == IF Truthy(a) THEN a ELSE b

HasField(o, k) == o.t = "object" /\ \E i \in 1..Len(o.fields) : o.fields[i].k = k

\* o?.k : undefined for null and undefined, the property otherwise
Get(o, k) ==
  IF HasField(o, k)
  THEN o.fields[CHOOSE i \in 1..Len(o.fields) : o.fields[i].k = k].v
  ELSE Undefined

\* result[k] = v on an object: an existing property keeps its position
SetField(o, k, v) ==
  IF HasField(o, k)
  THEN Obj([i \in 1..Len(o.fields) |->
              IF o.fields[i].k = k THEN P(k, v) ELSE o.fields[i]])
  ELSE Obj(Append(o.fields, P(k, v)))

\* { ...o } : the own properties of an object, nothing for undefined or null
Spread(o) == IF o.t = "object" THEN Obj(o.fields) ELSE Obj(<< >>)

(***************************************************************************)
(* Strings                                                                 *)
(***************************************************************************)
RECURSIVE Join(_, _)
\* Array.prototype.join of a sequence of strings
Join(strs, sep) ==
  IF strs = << >> THEN << >>
  ELSE IF Len(strs) = 1 THEN strs[1]
  ELSE strs[1] \o sep \o Join(Tail(strs), sep)

Colon == <<58>>

Comma == <<44>>

Quote == <<34>>

\* the letters n u l l
NullText == <<110, 117, 108, 108>>

Digit36(d) == IF d < 10 THEN 48 + d ELSE 87 + d

RECURSIVE ToString36(_)
\* Number.prototype.toString(36) of a non-negative integer below 2^31
ToString36(n) ==
  IF n < 36 THEN <<Digit36(n)>>
  ELSE Append(ToString36(n \div 36), Digit36(n % 36))

RECURSIVE ToString10(_)
ToString10(n) ==
  IF n < 0 THEN <<45>> \o ToString10(0 - n)
  ELSE IF n < 10 THEN <<48 + n>>
  ELSE Append(ToString10(n \div 10), 48 + (n % 10))

\* the characters of the property names that occur in documents and results
FieldText ==
  [pageContent |-> <<112, 97, 103, 101, 67, 111, 110, 116, 101, 110, 116>>,
   text |-> <<116, 101, 120, 116>>,
   content |-> <<99, 111, 110, 116, 101, 110, 116>>,
   document |-> <<100, 111, 99, 117, 109, 101, 110, 116>>,
   metadata |-> <<109, 101, 116, 97, 100, 97, 116, 97>>,
   _originalScore |-> <<95, 111, 114, 105, 103, 105, 110, 97, 108, 83, 99, 111, 114, 101>>,
   _rerankScore |-> <<95, 114, 101, 114, 97, 110, 107, 83, 99, 111, 114, 101>>,
   _originalIndex |-> <<95, 111, 114, 105, 103, 105, 110, 97, 108, 73, 110, 100, 101, 120>>,
   custom |-> <<99, 117, 115, 116, 111, 109>>,
   self |-> <<115, 101, 108, 102>>]

\* the texts "true" and "false"
TrueText == <<116, 114, 117, 101>>

FalseText == <<102, 97, 108, 115, 101>>

RECURSIVE Serializes(_)
\* JSON.stringify(v) returns: it throws a TypeError for a value that holds
\* a reference to itself
Serializes(v) ==
  CASE v.t = "cycle" -> FALSE
    [] v.t = "object" ->
         \A i \in 1..Len(v.fields) : Serializes(v.fields[i].v)
    [] v.t = "array" -> \A i \in 1..Len(v.items) : Serializes(v.items[i])
    [] OTHER -> TRUE

RECURSIVE JSONChars(_)
\* the text JSON.stringify produces for a value other than undefined
\* (the strings used here need no escaping)
JSONChars(v) ==
  CASE v.t = "string" -> Quote \o v.s \o Quote
    [] v.t = "number" -> ToString10(v.n)
    [] v.t = "boolean" -> IF v.b THEN TrueText ELSE FalseText
    [] v.t = "object" ->
         LET kept == SelectSeq(v.fields, LAMBDA f : f.v.t # "undefined")
         IN  <<123>> \o
             Join([i \in 1..Len(kept) |->
                     Quote \o FieldText[kept[i].k] \o Quote \o Colon
                       \o JSONChars(kept[i].v)], Comma)
             \o <<125>>
    [] v.t = "array" ->
         <<91>> \o
         Join([i \in 1..Len(v.items) |->
                 IF v.items[i].t = "undefined" THEN NullText
                 ELSE JSONChars(v.items[i])], Comma)
         \o <<93>>
    [] OTHER -> NullText

\* JSON.stringify(v): undefined stays undefined
JSONStringify(v) == IF v.t = "undefined" THEN Undefined ELSE Str(JSONChars(v))

(***************************************************************************)
(* Document text extraction                                                *)
(***************************************************************************)
\* d?.pageContent || d?.text || d?.content || d?.document || JSON.stringify(d)
documentText(d) ==
  Or(Get(d, "pageContent"),
     Or(Get(d, "text"),
        Or(Get(d, "content"),
           Or(Get(d, "document"), JSONStringify(d)))))

documentTexts(docs) == [i \in 1..Len(docs) |-> documentText(docs[i])]

\* the extraction of the text of d throws: none of the four fields is
\* truthy and JSON.stringify(d) throws
textThrows(d) ==
  /\ ~Truthy(Get(d, "pageContent"))
  /\ ~Truthy(Get(d, "text"))
  /\ ~Truthy(Get(d, "content"))
  /\ ~Truthy(Get(d, "document"))
  /\ ~Serializes(d)

textsThrow(docs) == \E i \in 1..Len(docs) : textThrows(docs[i])

(***************************************************************************)
(* createCacheKey                                                          *)
(***************************************************************************)
\* a 32-bit integer is held as <<high 16 bits, low 16 bits>>
HashStep(h, char) ==
  LET t == 31 * h[2] + char
  IN  <<(31 * h[1] + (t \div 65536)) % 65536, t % 65536>>

RECURSIVE HashFrom(_, _, _)
HashFrom(str, i, h) ==
  IF i > Len(str) THEN h ELSE HashFrom(str, i + 1, HashStep(h, str[i]))

\* Math.abs of the signed 32-bit integer h
Abs32(h) ==
  IF h[1] < 32768 THEN h
  ELSE <<(65535 - h[1] + (IF h[2] = 0 THEN 1 ELSE 0)) % 65536,
         (65536 - h[2]) % 65536>>

\* toString(36) of a non-negative integer of at most 2^31 held in halves
ToString36Halves(h) ==
  LET rest == (h[1] % 36) * 65536 + h[2]
      q    == (h[1] \div 36) * 65536 + (rest \div 36)
  IN  IF q = 0 THEN <<Digit36(rest % 36)>>
      ELSE Append(ToString36(q), Digit36(rest % 36))

simpleHash(str) == ToString36Halves(Abs32(HashFrom(str, 1, <<0, 0>>)))

\* variant of createCacheKey that leaves the backend out of the key
createCacheKeyNoService(query, docs, service, model) ==
  Join(<<model, simpleHash(query),
         simpleHash(JSONChars(Arr(documentTexts(docs))))>>, Colon)

createCacheKey(query, docs, service, model) ==
  LET docsString == JSONChars(Arr(documentTexts(docs)))
      queryHash  == simpleHash(query)
      docsHash   == simpleHash(docsString)
  IN  Join(<<service, model, queryHash, docsHash>>, Colon)

(***************************************************************************)
(* The result cache: a Map in insertion order, held as a sequence of       *)
(* entries {key, results, timestamp}.  Four history fields ride along     *)
(* with an entry and are never read by the program: born, the number of    *)
(* the insertion that created the key; raw, the response.results the       *)
(* list was computed from; by, the content and includeOriginalScores of    *)
(* the call that computed it; writes, the number of puts on the key since  *)
(* it was inserted.                                                        *)
(***************************************************************************)
CacheLimit == 1000

HasKey(cache, key) == \E i \in 1..Len(cache) : cache[i].key = key

Entry(cache, key) == cache[CHOOSE i \in 1..Len(cache) : cache[i].key = key]

\* Map.prototype.delete
Delete(cache, key) == SelectSeq(cache, LAMBDA e : e.key # key)

\* variant of MapSet that adds an entry even when the key is present
MapSetAppend(cache, key, results, time, h) ==
  Append(cache, [key |-> key, results |-> results, timestamp |-> time,
                 born |-> h.born, raw |-> h.raw, by |-> h.by, writes |-> 1])

\* Map.prototype.set: a key that is present keeps its place
MapSet(cache, key, results, time, h) ==
  IF HasKey(cache, key)
  THEN [i \in 1..Len(cache) |->
          IF cache[i].key = key
          THEN [cache[i] EXCEPT !.results = results, !.timestamp = time,
                                !.raw = h.raw, !.by = h.by,
                                !.writes = @ + 1]
          ELSE cache[i]]
  ELSE Append(cache, [key |-> key, results |-> results, timestamp |-> time,
                      born |-> h.born, raw |-> h.raw, by |-> h.by,
                      writes |-> 1])

\* variant of getCachedResult that still serves an entry whose age equals
\* the TTL
getCachedResultInclusive(cache, key, ttlMinutes, time) ==
  LET ttlMs == ttlMinutes * 60 * 1000
  IN  IF HasKey(cache, key) /\ time - Entry(cache, key).timestamp <= ttlMs
      THEN [hit |-> TRUE, results |-> Entry(cache, key).results, cache |-> cache]
      ELSE [hit |-> FALSE, results |-> << >>,
            cache |-> IF HasKey(cache, key) THEN Delete(cache, key) ELSE cache]

\* variant of getCachedResult that leaves an expired entry in the Map
getCachedResultKeepsExpired(cache, key, ttlMinutes, time) ==
  LET ttlMs == ttlMinutes * 60 * 1000
  IN  IF HasKey(cache, key) /\ time - Entry(cache, key).timestamp < ttlMs
      THEN [hit |-> TRUE, results |-> Entry(cache, key).results, cache |-> cache]
      ELSE [hit |-> FALSE, results |-> << >>, cache |-> cache]

\* variant of getCachedResult that decides expiry with the default TTL of
\* five minutes instead of the TTL of the call
getCachedResultDefaultTtl(cache, key, ttlMinutes, time) ==
  LET ttlMs == 5 * 60 * 1000
  IN  IF HasKey(cache, key) /\ time - Entry(cache, key).timestamp < ttlMs
      THEN [hit |-> TRUE, results |-> Entry(cache, key).results, cache |-> cache]
      ELSE [hit |-> FALSE, results |-> << >>,
            cache |-> IF HasKey(cache, key) THEN Delete(cache, key) ELSE cache]

\* variant of getCachedResult that gives a served entry the time of the
\* lookup
getCachedResultTouches(cache, key, ttlMinutes, time) ==
  LET ttlMs == ttlMinutes * 60 * 1000
  IN  IF HasKey(cache, key) /\ time - Entry(cache, key).timestamp < ttlMs
      THEN [hit |-> TRUE, results |-> Entry(cache, key).results,
            cache |-> [i \in 1..Len(cache) |->
                         IF cache[i].key = key
                         THEN [cache[i] EXCEPT !.timestamp = time]
                         ELSE cache[i]]]
      ELSE [hit |-> FALSE, results |-> << >>,
            cache |-> IF HasKey(cache, key) THEN Delete(cache, key) ELSE cache]

\* getCachedResult: the list returned (hit) and the cache it leaves
getCachedResult(cache, key, ttlMinutes, time) ==
  LET ttlMs == ttlMinutes * 60 * 1000
  IN  IF HasKey(cache, key) /\ time - Entry(cache, key).timestamp < ttlMs
      THEN [hit |-> TRUE, results |-> Entry(cache, key).results, cache |-> cache]
      ELSE [hit |-> FALSE, results |-> << >>,
            cache |-> IF HasKey(cache, key) THEN Delete(cache, key) ELSE cache]

\* variant of setCachedResult without the size limit
setCachedResultUnbounded(cache, key, results, time, h) ==
  MapSet(cache, key, results, time, h)

\* variant of setCachedResult that removes the second key of the Map
\* instead of the first
setCachedResultEvictsSecond(cache, key, results, time, h) ==
  LET set == MapSet(cache, key, results, time, h)
  IN  IF Len(set) > CacheLimit THEN Delete(set, set[2].key) ELSE set

\* variant of setCachedResult that removes the entry with the oldest
\* timestamp (the first of them) instead of the first key of the Map
setCachedResultEvictsOldest(cache, key, results, time, h) ==
  LET set == MapSet(cache, key, results, time, h)
      oldest == CHOOSE i \in 1..Len(set) :
                  /\ \A j \in 1..Len(set) : set[i].timestamp <= set[j].timestamp
                  /\ \A j \in 1..(i - 1) : set[j].timestamp > set[i].timestamp
  IN  IF Len(set) > CacheLimit THEN Delete(set, set[oldest].key) ELSE set

\* setCachedResult: the cache after the put
setCachedResult(cache, key, results, time, h) ==
  LET set == MapSet(cache, key, results, time, h)
  IN  IF Len(set) > CacheLimit
      THEN LET firstKey == set[1].key
           IN  IF firstKey # << >> THEN Delete(set, firstKey) ELSE set
      ELSE set

(***************************************************************************)
(* processRerankResults                                                    *)
(***************************************************************************)
\* variant of resolvedScore without the final 0
resolvedScoreNoDefault(r) == Or(Get(r, "relevance_score"), Get(r, "score"))

\* r.relevance_score || r.score || 0
resolvedScore(r) == Or(Get(r, "relevance_score"), Or(Get(r, "score"), Num(0)))

IsDigits(s) == s # << >> /\ \A i \in 1..Len(s) : s[i] \in 48..57

RECURSIVE DigitsValue(_)
DigitsValue(s) ==
  IF s = << >> THEN 0 ELSE 10 * DigitsValue(SubSeq(s, 1, Len(s) - 1)) + (s[Len(s)] - 48)

\* ToNumber gives a number and not NaN.  Of the strings, those made of
\* digits, or of digits, a point and one digit, are taken as numeric; null
\* converts to 0; undefined, other strings, objects and arrays count as NaN
IsNumber(v) ==
  CASE v.t = "number" -> TRUE
    [] v.t = "null" -> TRUE
    [] v.t = "string" ->
         \/ IsDigits(v.s)
         \/ /\ Len(v.s) >= 3
            /\ v.s[Len(v.s) - 1] = 46
            /\ IsDigits(SubSeq(v.s, 1, Len(v.s) - 2))
            /\ v.s[Len(v.s)] \in 48..57
    [] OTHER -> FALSE

\* ToNumber of a value that is not NaN, in tenths
NumberOf(v) ==
  CASE v.t = "number" -> v.n
    [] v.t = "null" -> 0
    [] OTHER ->
         IF IsDigits(v.s) THEN 10 * DigitsValue(v.s)
         ELSE 10 * DigitsValue(SubSeq(v.s, 1, Len(v.s) - 2)) + (v.s[Len(v.s)] - 48)

\* a >= threshold: both sides converted to numbers, false when a is NaN
AtLeast(a, threshold) == IsNumber(a) /\ NumberOf(a) >= threshold

\* originalDocs[index]
DocAt(originalDocs, index) ==
  IF index.t = "number" /\ index.n >= 0 /\ index.n < Len(originalDocs)
  THEN originalDocs[index.n + 1]
  ELSE IF index.t = "string" /\ IsDigits(index.s) /\ index.s # << >>
          /\ (Len(index.s) > 1 => index.s[1] # 48)
          /\ DigitsValue(index.s) < Len(originalDocs)
  THEN originalDocs[DigitsValue(index.s) + 1]
  ELSE Undefined

RECURSIVE InsertDescending(_, _)
\* place x after every element whose score is not smaller
InsertDescending(sorted, x) ==
  IF sorted = << >> THEN <<x>>
  ELSE IF NumberOf(Get(sorted[1], "_rerankScore")) >= NumberOf(Get(x, "_rerankScore"))
       THEN <<sorted[1]>> \o InsertDescending(Tail(sorted), x)
       ELSE <<x>> \o sorted

\* variant of SortDescending that keeps the order of the response
SortKeepsOrder(list) == list

RECURSIVE SortDescending(_)
\* Array.prototype.sort((a, b) => b._rerankScore - a._rerankScore), stable
SortDescending(list) ==
  IF list = << >> THEN << >>
  ELSE InsertDescending(SortDescending(SubSeq(list, 1, Len(list) - 1)),
                        list[Len(list)])

\* the record built for one raw result entry
scoredResult(r, originalDocs, includeOriginalScores) ==
  LET originalDoc == DocAt(originalDocs, Get(r, "index"))
      base == SetField(SetField(Spread(originalDoc),
                                "_rerankScore", resolvedScore(r)),
                       "_originalIndex", Get(r, "index"))
  IN  IF includeOriginalScores /\ Get(originalDoc, "_originalScore").t # "undefined"
      THEN SetField(base, "_originalScore", Get(originalDoc, "_originalScore"))
      ELSE base

\* reading originalDoc._originalScore of an undefined or null document throws
mapThrows(r, originalDocs, includeOriginalScores) ==
  includeOriginalScores
    /\ DocAt(originalDocs, Get(r, "index")).t \in {"undefined", "null"}

\* results: the value of response.results
processRerankResults(results, originalDocs, threshold, includeOriginalScores) ==
  IF results.t # "array"
  THEN [ok |-> FALSE, error |-> "NodeOperationError", list |-> << >>]
  ELSE LET kept == SelectSeq(results.items,
                             LAMBDA r : AtLeast(resolvedScore(r), threshold))
       IN  IF \E i \in 1..Len(kept) :
                 mapThrows(kept[i], originalDocs, includeOriginalScores)
           THEN [ok |-> FALSE, error |-> "TypeError", list |-> << >>]
           ELSE [ok |-> TRUE, error |-> "",
                 list |-> SortDescending(
                   [i \in 1..Len(kept) |->
                      scoredResult(kept[i], originalDocs, includeOriginalScores)])]

\* variant of fromCache without the threshold filter
fromCacheUnfiltered(cached, threshold, topK) ==
  SubSeq(cached, 1, IF topK < Len(cached) THEN topK ELSE Len(cached))

\* cached.filter(doc => doc._rerankScore >= threshold).slice(0, topK)
fromCache(cached, threshold, topK) ==
  LET kept == SelectSeq(cached,
                        LAMBDA doc : AtLeast(Get(doc, "_rerankScore"), threshold))
      end  == IF topK < 0 THEN Len(kept) + topK
              ELSE IF topK < Len(kept) THEN topK ELSE Len(kept)
  IN  SubSeq(kept, 1, end)

(***************************************************************************)
(* Inputs                                                                  *)
(***************************************************************************)
OpenAIService == <<111, 112, 101, 110, 97, 105, 45, 99, 111, 109, 112, 97, 116, 105, 98, 108, 101>>

CohereService == <<99, 111, 104, 101, 114, 101>>

\* the texts "a", "b", the query "q", the model "m"
TextA == Str(<<97>>)

TextB == Str(<<98>>)

QueryQ == <<113>>

ModelM == <<109>>

\* two document lists with the same texts and different other fields
DocsOne == <<Obj(<<P("pageContent", TextA), P("_originalScore", Num(7))>>),
             Obj(<<P("text", TextB)>>)>>

DocsTwo == <<Obj(<<P("pageContent", TextA), P("metadata", Num(1))>>),
             Obj(<<P("text", TextB)>>)>>

\* the queries "Aa" and "BB"
QueryAa == <<65, 97>>

QueryBB == <<66, 66>>

\* the texts "Aa" and "BB" as two documents, in either order
DocsAaBB == <<Obj(<<P("text", Str(QueryAa))>>), Obj(<<P("text", Str(QueryBB))>>)>>

DocsBBAa == <<Obj(<<P("text", Str(QueryBB))>>), Obj(<<P("text", Str(QueryAa))>>)>>

\* documents of every shape: fields that are empty, 0 or false before a
\* field with a text; no truthy field; a field that is a number; null; no
\* document; a document that holds itself, without and with a text
Shapes ==
  [emptyThenText |-> Obj(<<P("pageContent", Str(<< >>)), P("text", TextB)>>),
   zeroThenText  |-> Obj(<<P("pageContent", Num(0)), P("content", TextA)>>),
   falseThenText |-> Obj(<<P("text", Bool(FALSE)), P("document", TextB)>>),
   noText        |-> Obj(<<P("content", Str(<< >>)), P("metadata", Num(1))>>),
   numberText    |-> Obj(<<P("pageContent", Num(5))>>),
   nullDocument  |-> Null,
   noDocument    |-> Undefined,
   cyclic        |-> Obj(<<P("metadata", Num(1)), P("self", Cycle)>>),
   cyclicText    |-> Obj(<<P("content", TextA), P("self", Cycle)>>)]

\* the text "undefined"
UndefinedText == <<117, 110, 100, 101, 102, 105, 110, 101, 100>>

\* String(v) of a value that is not an object
StringOf(v) ==
  CASE v.t = "string" -> v
    [] v.t = "number" -> Str(ToString10(v.n))
    [] v.t = "null" -> Str(NullText)
    [] OTHER -> Str(UndefinedText)

\* the Provider's conversion of one input document, at position docIndex
processedDoc(doc, docIndex) ==
  IF Truthy(doc) /\ doc.t \in {"object", "array"}
  THEN Obj(<<P("pageContent", documentText(doc)),
             P("metadata", Or(Get(doc, "metadata"), Obj(<< >>))),
             P("_originalIndex", Num(docIndex))>>)
  ELSE Obj(<<P("pageContent", StringOf(doc)),
             P("metadata", Obj(<< >>)),
             P("_originalIndex", Num(docIndex))>>)

\* the Provider's conversion of its input documents
processedDocs(docs) == [i \in 1..Len(docs) |-> processedDoc(docs[i], i - 1)]

Contents ==
  [one   |-> [service |-> OpenAIService, model |-> ModelM,
              query |-> QueryQ, docs |-> DocsOne],
   two   |-> [service |-> OpenAIService, model |-> ModelM,
              query |-> QueryQ, docs |-> DocsTwo],
   three |-> [service |-> CohereService, model |-> ModelM,
              query |-> QueryQ, docs |-> DocsOne],
   four  |-> [service |-> OpenAIService, model |-> ModelM,
              query |-> QueryAa, docs |-> DocsOne],
   five  |-> [service |-> OpenAIService, model |-> ModelM,
              query |-> QueryBB, docs |-> DocsOne],
   six   |-> [service |-> OpenAIService, model |-> ModelM,
              query |-> QueryQ, docs |-> DocsAaBB],
   seven |-> [service |-> OpenAIService, model |-> ModelM,
              query |-> QueryQ, docs |-> DocsBBAa],
   eight |-> [service |-> CohereService, model |-> ModelM,
              query |-> QueryAa, docs |-> DocsOne],
   nine  |-> [service |-> OpenAIService, model |-> ModelM,
              query |-> QueryQ, docs |-> processedDocs(DocsOne)]]
  @@ [c \in DOMAIN Shapes |->
        [service |-> OpenAIService, model |-> ModelM, query |-> QueryQ,
         docs |-> <<Shapes[c]>>]]

ContentIds == DOMAIN Contents

\* the cache key of each content, as the two rerank functions compute it
KeyOf ==
  [c \in ContentIds |->
     IF textsThrow(Contents[c].docs) THEN << >>
     ELSE createCacheKey(Contents[c].query, Contents[c].docs,
                         Contents[c].service, Contents[c].model)]

TopKs == {1, 2}

Thresholds == {0 - 1, 5}

CacheTtls == {1, 2}

\* the arguments and node parameters of one call; credentials names the
\* Cohere credentials that resolve; entry is the caller of the rerank
\* function: "helper" for a direct call, "flow" for the Flow node's execute,
\* "provider" for the Provider's rerank; query and documents are the values
\* the caller gives, for a direct call those of the content
ArgumentsWith(contents, topKs, thresholds, includes, caches, cacheTtls, credentials) ==
  { [entry |-> "helper",
     query |-> Str(Contents[a.content].query),
     documents |-> Arr(Contents[a.content].docs),
     content |-> a.content, topK |-> a.topK, threshold |-> a.threshold,
     includeOriginalScores |-> a.includeOriginalScores,
     enableCache |-> a.enableCache, cacheTtl |-> a.cacheTtl,
     credentials |-> a.credentials, template |-> "off"] :
      a \in { b \in [content : contents, topK : topKs, threshold : thresholds,
                     includeOriginalScores : includes, enableCache : caches,
                     cacheTtl : cacheTtls, credentials : credentials] :
                Contents[b.content].service = OpenAIService
                  => b.credentials = "none" } }

\* calls with includeOriginalScores off
Arguments(contents, topKs, thresholds, caches, cacheTtls, credentials) ==
  ArgumentsWith(contents, topKs, thresholds, {FALSE}, caches, cacheTtls,
                credentials)

MainCalls ==
  Arguments({"one", "three"}, TopKs, Thresholds, BOOLEAN, CacheTtls,
            {"cohereApi", "none"})

\* calls that agree on everything but the content and the credential
PlainCalls ==
  Arguments({"one", "three"}, {2}, {0 - 1}, {TRUE}, {1}, {"cohereApi", "none"})

Raw(index, field, score) == Obj(<<P("index", Num(index)), P(field, Num(score))>>)

\* values of response.results: absent, out of score order, equal scores
RawResults ==
  { Undefined,
    Arr(<<Raw(1, "relevance_score", 3), Raw(0, "relevance_score", 9)>>),
    Arr(<<Raw(1, "score", 9), Raw(0, "score", 9)>>) }

\* what the remote call can come back with
ResponsesOf(raws) ==
  { [kind |-> "transport", results |-> Undefined],
    [kind |-> "status", results |-> Undefined] }
  \cup { [kind |-> "ok", results |-> r] : r \in raws }

Responses == ResponsesOf(RawResults)

(***************************************************************************)
(* State                                                                   *)
(***************************************************************************)
Procs == {1, 2}

\* the slot used when calls run one after the other
OneSlot == {1}

MaxCalls == 2

MaxTicks == 2

VARIABLES
  rerankCache,  \* the module-level Map
  now,          \* Date.now()
  pc,           \* per call slot: "idle", "waiting", "done", "failed"
  call,         \* per call slot: the call's arguments, key and history
  out,          \* per call slot: the list or the error of the finished call
  inserted,     \* history: number of keys inserted into the Map so far
  budget,       \* number of calls that may still start
  last          \* history: the call that has just stored an entry

vars == <<rerankCache, now, pc, call, out, inserted, budget, last>>

NoCall == [content |-> "none"]

\* error: the class and message of the error thrown; description: its
\* description
NoOut == [error |-> "", description |-> "", list |-> << >>]

NoLast == [follower |-> 0 - 1]

Init(calls) ==
  /\ rerankCache = << >>
  /\ now = 0
  /\ pc = [p \in Procs |-> "idle"]
  /\ call = [p \in Procs |-> NoCall]
  /\ out = [p \in Procs |-> NoOut]
  /\ inserted = 0
  /\ budget = calls
  /\ last = NoLast

\* no finished call is waiting to be handed back to its caller
Quiet == \A p \in Procs : pc[p] \in {"idle", "waiting"}

\* history: another operation ran while the call was in flight
Disturbed(c) ==
  IF c = NoCall THEN c ELSE [c EXCEPT !.alone = FALSE, !.before = << >>]

\* history: another call stored the call's key while the call was in flight
Raced(c, stored, key) ==
  IF c # NoCall /\ stored /\ c.key = key THEN [c EXCEPT !.raced = TRUE] ELSE c

(***************************************************************************)
(* Errors on their way to the caller                                       *)
(***************************************************************************)
\* the catch block of the Flow node's execute: a NodeOperationError is
\* rethrown as it is, any other error becomes a NodeOperationError whose
\* message is 'Reranking failed: ' and the message of the caught error
executeCatch(o) ==
  CASE o.error = "NodeApiError: API Error" ->
         [o EXCEPT !.error = "NodeOperationError: Reranking failed: API Error",
                   !.description = ""]
    [] o.error = "NodeApiError: Request failed" ->
         [o EXCEPT !.error = "NodeOperationError: Reranking failed: Request failed",
                   !.description = ""]
    [] o.error = "NodeApiError: Cohere API Error" ->
         [o EXCEPT !.error = "NodeOperationError: Reranking failed: Cohere API Error",
                   !.description = ""]
    [] o.error = "NodeApiError: Cohere request failed" ->
         [o EXCEPT !.error = "NodeOperationError: Reranking failed: Cohere request failed",
                   !.description = ""]
    [] o.error = "TypeError: Converting circular structure to JSON" ->
         [o EXCEPT !.error =
            "NodeOperationError: Reranking failed: Converting circular structure to JSON"]
    [] OTHER -> o

\* what the caller of the entry point gets for an error of the rerank
\* function: execute catches it, the Provider's rerank lets it through
Propagated(entry, o) == IF entry = "flow" THEN executeCatch(o) ELSE o

(***************************************************************************)
(* Templates of rerankWithOpenAI: the query and the document texts as they *)
(* are sent in the request body                                            *)
(***************************************************************************)
\* the fixed texts of the preset qwen3
Qwen3QueryPrefix ==
  <<60, 124, 105, 109, 95, 115, 116, 97, 114, 116, 124, 62, 115, 121, 115,
    116, 101, 109, 10, 74, 117, 100, 103, 101, 32, 119, 104, 101, 116, 104,
    101, 114, 32, 116, 104, 101, 32, 68, 111, 99, 117, 109, 101, 110, 116,
    32, 109, 101, 101, 116, 115, 32, 116, 104, 101, 32, 114, 101, 113, 117,
    105, 114, 101, 109, 101, 110, 116, 115, 32, 98, 97, 115, 101, 100, 32,
    111, 110, 32, 116, 104, 101, 32, 81, 117, 101, 114, 121, 32, 97, 110,
    100, 32, 116, 104, 101, 32, 73, 110, 115, 116, 114, 117, 99, 116, 32,
    112, 114, 111, 118, 105, 100, 101, 100, 46, 32, 78, 111, 116, 101, 32,
    116, 104, 97, 116, 32, 116, 104, 101, 32, 97, 110, 115, 119, 101, 114,
    32, 99, 97, 110, 32, 111, 110, 108, 121, 32, 98, 101, 32, 34, 121, 101,
    115, 34, 32, 111, 114, 32, 34, 110, 111, 34, 46, 60, 124, 105, 109, 95,
    101, 110, 100, 124, 62, 10, 60, 124, 105, 109, 95, 115, 116, 97, 114,
    116, 124, 62, 117, 115, 101, 114, 10>>

Qwen3DocumentSuffix ==
  <<60, 124, 105, 109, 95, 101, 110, 100, 124, 62, 10, 60, 124, 105, 109,
    95, 115, 116, 97, 114, 116, 124, 62, 97, 115, 115, 105, 115, 116, 97,
    110, 116, 10, 60, 116, 104, 105, 110, 107, 62, 10, 10, 60, 47, 116,
    104, 105, 110, 107, 62, 10, 10>>

DefaultInstruction ==
  <<71, 105, 118, 101, 110, 32, 97, 32, 119, 101, 98, 32, 115, 101, 97,
    114, 99, 104, 32, 113, 117, 101, 114, 121, 44, 32, 114, 101, 116, 114,
    105, 101, 118, 101, 32, 114, 101, 108, 101, 118, 97, 110, 116, 32, 112,
    97, 115, 115, 97, 103, 101, 115, 32, 116, 104, 97, 116, 32, 97, 110,
    115, 119, 101, 114, 32, 116, 104, 101, 32, 113, 117, 101, 114, 121>>

\* the texts "<Instruct>: ", "<Query>: " and "<Document>: "
InstructTag == <<60, 73, 110, 115, 116, 114, 117, 99, 116, 62, 58, 32>>

QueryTag == <<60, 81, 117, 101, 114, 121, 62, 58, 32>>

DocumentTag == <<60, 68, 111, 99, 117, 109, 101, 110, 116, 62, 58, 32>>

\* template settings of a node: templates off; the preset with its default
\* instruction and with the instruction "i"; custom prefixes and suffixes
Templates ==
  [off    |-> [enableCustomTemplates |-> FALSE, templatePreset |-> "qwen3",
               instruction |-> DefaultInstruction,
               queryPrefix |-> << >>, querySuffix |-> << >>,
               documentPrefix |-> << >>, documentSuffix |-> << >>],
   qwen3  |-> [enableCustomTemplates |-> TRUE, templatePreset |-> "qwen3",
               instruction |-> DefaultInstruction,
               queryPrefix |-> << >>, querySuffix |-> << >>,
               documentPrefix |-> << >>, documentSuffix |-> << >>],
   qwen3i |-> [enableCustomTemplates |-> TRUE, templatePreset |-> "qwen3",
               instruction |-> <<105>>,
               queryPrefix |-> << >>, querySuffix |-> << >>,
               documentPrefix |-> << >>, documentSuffix |-> << >>],
   custom |-> [enableCustomTemplates |-> TRUE, templatePreset |-> "custom",
               instruction |-> DefaultInstruction,
               queryPrefix |-> <<60>>, querySuffix |-> <<62>>,
               documentPrefix |-> <<91>>, documentSuffix |-> <<93>>]]

\* finalQuery
finalQuery(query, t) ==
  IF ~t.enableCustomTemplates THEN query
  ELSE IF t.templatePreset = "qwen3"
  THEN Qwen3QueryPrefix \o InstructTag \o t.instruction \o <<10>>
         \o QueryTag \o query \o <<10>>
  ELSE t.queryPrefix \o query \o t.querySuffix

\* finalDocuments: a text in a template literal is converted to a string
finalDocuments(texts, t) ==
  IF ~t.enableCustomTemplates THEN texts
  ELSE IF t.templatePreset = "qwen3"
  THEN [i \in 1..Len(texts) |->
          Str(DocumentTag \o StringOf(texts[i]).s \o Qwen3DocumentSuffix)]
  ELSE [i \in 1..Len(texts) |->
          Str(t.documentPrefix \o StringOf(texts[i]).s \o t.documentSuffix)]

\* query and documents of the request body; rerankWithCohere has no
\* templates
requestBody(a) ==
  LET c == Contents[a.content]
      t == IF c.service = OpenAIService THEN Templates[a.template]
           ELSE Templates["off"]
  IN  [query |-> Str(finalQuery(c.query, t)),
       documents |-> finalDocuments(documentTexts(c.docs), t)]

\* history: the put of the call removed no entry
NoEntry == [key |-> << >>]

\* history: the entry that was first in the Map before a put and is gone
\* after it
Evicted(before, after) ==
  IF before # << >> /\ ~HasKey(after, before[1].key) THEN before[1]
  ELSE NoEntry

\* history: no request has been sent
NoBody == [query |-> Undefined, documents |-> << >>]

\* variant of cacheKeyOf with the templated query in the key
cacheKeyOfTemplated(a) ==
  KeyOf[a.content] \o Colon \o finalQuery(<< >>, Templates[a.template])

\* createCacheKey(query, docs, service, model) of a call
cacheKeyOf(a) == KeyOf[a.content]

(***************************************************************************)
(* rerankWithOpenAI / rerankWithCohere up to the await of the HTTP request *)
(***************************************************************************)
\* getCredentials(name): resolves when the credential of that name is
\* configured on the node; configured is "cohereApi", "cohereRerankerApi",
\* "both" or "none"
Resolves(configured, name) == configured = name \/ configured = "both"

\* variant of resolveCredentials that asks for the legacy credential first
resolveCredentialsLegacyFirst(configured) ==
  IF Resolves(configured, "cohereRerankerApi") THEN "cohereRerankerApi"
  ELSE IF Resolves(configured, "cohereApi") THEN "cohereApi"
  ELSE "none"

\* the credential rerankWithCohere goes on with: cohereApi, and
\* cohereRerankerApi when getCredentials('cohereApi') throws; "none" when
\* the second getCredentials throws too
resolveCredentials(configured) ==
  IF Resolves(configured, "cohereApi") THEN "cohereApi"
  ELSE IF Resolves(configured, "cohereRerankerApi") THEN "cohereRerankerApi"
  ELSE "none"

\* the call record: the arguments, the cache key, and history fields
\* (credential, body, evicted, hit, expired, remoteCalls, lookedUpAt, before,
\* alone, raced);
\* query and documents are the values the entry point was given
Begun(a) ==
  [entry |-> a.entry,
   query |-> a.query, documents |-> a.documents,
   content |-> a.content, topK |-> a.topK, threshold |-> a.threshold,
   includeOriginalScores |-> a.includeOriginalScores,
   enableCache |-> a.enableCache, cacheTtl |-> a.cacheTtl,
   credentials |-> a.credentials, template |-> a.template,
   body |-> NoBody, evicted |-> NoEntry,
   credential |-> IF Contents[a.content].service = CohereService
                  THEN resolveCredentials(a.credentials) ELSE "none",
   key |-> cacheKeyOf(a), hit |-> FALSE, expired |-> FALSE,
   remoteCalls |-> 0, lookedUpAt |-> now, before |-> rerankCache,
   alone |-> TRUE, raced |-> FALSE]

\* both credentials fail to resolve: the call fails before anything else
CredentialFailure(p, a) ==
  /\ Contents[a.content].service = CohereService
  /\ resolveCredentials(a.credentials) = "none"
  /\ pc' = [pc EXCEPT ![p] = "failed"]
  /\ call' = [q \in Procs |-> IF q = p THEN Begun(a) ELSE Disturbed(call[q])]
  /\ out' = [out EXCEPT ![p] = [error |-> "credentials", description |-> "", list |-> << >>]]
  /\ UNCHANGED rerankCache

\* a document without a text holds itself: JSON.stringify throws in
\* createCacheKey, or with the cache off in the extraction of the texts,
\* both outside the try block; execute wraps the TypeError
SerializationFailure(p, a) ==
  /\ Contents[a.content].service = CohereService
       => resolveCredentials(a.credentials) # "none"
  /\ textsThrow(Contents[a.content].docs)
  /\ pc' = [pc EXCEPT ![p] = "failed"]
  /\ call' = [q \in Procs |-> IF q = p THEN Begun(a) ELSE Disturbed(call[q])]
  /\ out' = [out EXCEPT ![p] =
               Propagated(a.entry,
                 [error |-> "TypeError: Converting circular structure to JSON",
                  description |-> "", list |-> << >>])]
  /\ UNCHANGED rerankCache

\* variant of CacheHit that looks the cache up before the credentials are
\* resolved
CacheHitBeforeCredentials(p, a) ==
  LET got == getCachedResult(rerankCache, cacheKeyOf(a), a.cacheTtl, now)
  IN  /\ ~textsThrow(Contents[a.content].docs)
      /\ a.enableCache
      /\ got.hit
      /\ pc' = [pc EXCEPT ![p] = "done"]
      /\ call' = [q \in Procs |->
                    IF q = p THEN [Begun(a) EXCEPT !.hit = TRUE]
                    ELSE Disturbed(call[q])]
      /\ out' = [out EXCEPT ![p] =
                   [error |-> "", description |-> "",
                    list |-> fromCache(got.results, a.threshold, a.topK)]]
      /\ rerankCache' = got.cache

\* variant of CacheHit that builds the returned records anew from the
\* documents of the call
CacheHitRebuilds(p, a) ==
  LET got == getCachedResult(rerankCache, cacheKeyOf(a), a.cacheTtl, now)
      rebuilt == [i \in 1..Len(got.results) |->
                    scoredResult(
                      Obj(<<P("index", Get(got.results[i], "_originalIndex")),
                            P("relevance_score",
                              Get(got.results[i], "_rerankScore"))>>),
                      Contents[a.content].docs, a.includeOriginalScores)]
  IN  /\ Contents[a.content].service = CohereService
           => resolveCredentials(a.credentials) # "none"
      /\ ~textsThrow(Contents[a.content].docs)
      /\ a.enableCache
      /\ got.hit
      /\ pc' = [pc EXCEPT ![p] = "done"]
      /\ call' = [q \in Procs |->
                    IF q = p THEN [Begun(a) EXCEPT !.hit = TRUE]
                    ELSE Disturbed(call[q])]
      /\ out' = [out EXCEPT ![p] =
                   [error |-> "", description |-> "",
                    list |-> fromCache(rebuilt, a.threshold, a.topK)]]
      /\ rerankCache' = got.cache

\* enableCache and the key is present and fresh: return from the cache
CacheHit(p, a) ==
  LET got == getCachedResult(rerankCache, cacheKeyOf(a), a.cacheTtl, now)
  IN  /\ Contents[a.content].service = CohereService
           => resolveCredentials(a.credentials) # "none"
      /\ ~textsThrow(Contents[a.content].docs)
      /\ a.enableCache
      /\ got.hit
      /\ pc' = [pc EXCEPT ![p] = "done"]
      /\ call' = [q \in Procs |->
                    IF q = p THEN [Begun(a) EXCEPT !.hit = TRUE]
                    ELSE Disturbed(call[q])]
      /\ out' = [out EXCEPT ![p] =
                   [error |-> "", description |-> "",
                    list |-> fromCache(got.results, a.threshold, a.topK)]]
      /\ rerankCache' = got.cache

\* no usable entry (or the cache is off): the HTTP request is sent
SendRequest(p, a) ==
  LET got == getCachedResult(rerankCache, cacheKeyOf(a), a.cacheTtl, now)
  IN  /\ Contents[a.content].service = CohereService
           => resolveCredentials(a.credentials) # "none"
      /\ ~textsThrow(Contents[a.content].docs)
      /\ a.enableCache => ~got.hit
      /\ pc' = [pc EXCEPT ![p] = "waiting"]
      /\ call' = [q \in Procs |->
                    IF q = p
                    THEN [Begun(a) EXCEPT
                            !.remoteCalls = 1,
                            !.body = requestBody(a),
                            !.expired = (a.enableCache
                                           /\ HasKey(rerankCache, cacheKeyOf(a)))]
                    ELSE Disturbed(call[q])]
      /\ out' = [out EXCEPT ![p] = NoOut]
      /\ rerankCache' = IF a.enableCache THEN got.cache ELSE rerankCache

Start(p, calls) ==
  /\ Quiet
  /\ pc[p] = "idle"
  /\ budget > 0
  /\ budget' = budget - 1
  /\ \E a \in calls :
       \/ CredentialFailure(p, a)
       \/ SerializationFailure(p, a)
       \/ CacheHit(p, a)
       \/ SendRequest(p, a)
  /\ last' = IF last # NoLast /\ last.follower = 0
             THEN [last EXCEPT !.follower = p] ELSE NoLast
  /\ UNCHANGED <<now, inserted>>

(***************************************************************************)
(* The Flow node's execute, for one input item, and the Provider's rerank, *)
(* up to the call of rerankWithOpenAI / rerankWithCohere                   *)
(***************************************************************************)
\* white space removed by String.prototype.trim: tab, line feed, carriage
\* return, space
WhiteSpace == {9, 10, 13, 32}

RECURSIVE trimStart(_)
trimStart(chars) ==
  IF chars # << >> /\ Head(chars) \in WhiteSpace THEN trimStart(Tail(chars))
  ELSE chars

RECURSIVE trimEnd(_)
trimEnd(chars) ==
  IF chars # << >> /\ chars[Len(chars)] \in WhiteSpace
  THEN trimEnd(SubSeq(chars, 1, Len(chars) - 1))
  ELSE chars

trim(chars) == trimEnd(trimStart(chars))

\* variant of queryRejected without the test of the trimmed query
queryRejectedUntrimmed(query) == ~Truthy(query)

\* !query || query.trim() === '' in execute, !query || !query.trim() in
\* the Provider's rerank
queryRejected(query) ==
  IF Truthy(query) THEN trim(query.s) = << >> ELSE TRUE

\* !docs || !Array.isArray(docs) in execute
documentsRejected(documents) ==
  IF Truthy(documents) THEN documents.t # "array" ELSE TRUE

\* Array.isArray(documents) ? documents : [] in the Provider's rerank
providerDocs(documents) ==
  IF documents.t = "array" THEN documents.items ELSE << >>

\* the documents the entry point goes on with
docsOf(n) ==
  IF n.entry = "flow" THEN n.documents.items ELSE providerDocs(n.documents)

\* both entry points: throw for an empty or blank query
QueryRejected(p, n) ==
  /\ queryRejected(n.query)
  /\ pc' = [pc EXCEPT ![p] = "failed"]
  /\ call' = [q \in Procs |-> IF q = p THEN Begun(n) ELSE Disturbed(call[q])]
  /\ out' = [out EXCEPT ![p] =
               [error |-> "NodeOperationError: Query cannot be empty",
                description |-> "", list |-> << >>]]
  /\ UNCHANGED rerankCache

\* execute: throw for a documents field that is missing or not a list
DocumentsRejected(p, n) ==
  /\ ~queryRejected(n.query)
  /\ n.entry = "flow"
  /\ documentsRejected(n.documents)
  /\ pc' = [pc EXCEPT ![p] = "failed"]
  /\ call' = [q \in Procs |-> IF q = p THEN Begun(n) ELSE Disturbed(call[q])]
  /\ out' = [out EXCEPT ![p] =
               [error |-> "NodeOperationError: No documents found in field",
                description |-> "", list |-> << >>]]
  /\ UNCHANGED rerankCache

\* the entry point goes past its tests of the query and the documents
Accepted(n) ==
  /\ ~queryRejected(n.query)
  /\ n.entry = "flow" => ~documentsRejected(n.documents)

\* execute: an empty list gives an item with no reranked documents; the
\* Provider's rerank: no list or an empty list gives an empty list
NothingToRerank(p, n) ==
  /\ Accepted(n)
  /\ docsOf(n) = << >>
  /\ pc' = [pc EXCEPT ![p] = "done"]
  /\ call' = [q \in Procs |-> IF q = p THEN Begun(n) ELSE Disturbed(call[q])]
  /\ out' = [out EXCEPT ![p] = NoOut]
  /\ UNCHANGED rerankCache

\* the rerank function of the service is called with the query and the
\* documents (the Provider passes its converted documents)
Reranks(n) == Accepted(n) /\ docsOf(n) # << >>

\* one input item of execute, or one call of the Provider's rerank
NodeStart(p, inputs) ==
  /\ Quiet
  /\ pc[p] = "idle"
  /\ budget > 0
  /\ budget' = budget - 1
  /\ \E n \in inputs :
       \/ QueryRejected(p, n)
       \/ DocumentsRejected(p, n)
       \/ NothingToRerank(p, n)
       \/ /\ Reranks(n)
          /\ \/ CredentialFailure(p, n)
             \/ SerializationFailure(p, n)
             \/ CacheHit(p, n)
             \/ SendRequest(p, n)
  /\ last' = IF last # NoLast /\ last.follower = 0
             THEN [last EXCEPT !.follower = p] ELSE NoLast
  /\ UNCHANGED <<now, inserted>>

(***************************************************************************)
(* rerankWithOpenAI / rerankWithCohere from the HTTP response to the end   *)
(***************************************************************************)
\* class and message of the error thrown for a response with an error
\* status and a body
apiError(service) ==
  IF service = CohereService THEN "NodeApiError: Cohere API Error"
  ELSE "NodeApiError: API Error"

\* class and message of the error thrown for every other caught error
requestFailed(service) ==
  IF service = CohereService THEN "NodeApiError: Cohere request failed"
  ELSE "NodeApiError: Request failed"

\* description of the NodeApiError: the response body for an error status,
\* the message of the caught error otherwise
failureDescription(resp, processed) ==
  CASE resp.kind = "status" -> "response body"
    [] resp.kind = "transport" -> "message of the rejected request"
    [] processed.error = "NodeOperationError" ->
         "Invalid reranking results: expected array of results"
    [] OTHER -> "message of the TypeError"

\* the request rejects, or processRerankResults throws: the catch block
\* rethrows a NodeApiError and the cache is not written
Fail(p, resp) ==
  LET a == call[p]
      processed == processRerankResults(resp.results, Contents[a.content].docs,
                                        a.threshold, a.includeOriginalScores)
  IN  /\ resp.kind # "ok" \/ ~processed.ok
      /\ pc' = [pc EXCEPT ![p] = "failed"]
      /\ out' = [out EXCEPT ![p] =
                   Propagated(a.entry,
                     [error |-> IF resp.kind = "status"
                                THEN apiError(Contents[a.content].service)
                                ELSE requestFailed(Contents[a.content].service),
                      description |-> failureDescription(resp, processed),
                      list |-> << >>])]
      /\ last' = NoLast
      /\ UNCHANGED <<rerankCache, inserted>>

\* variant of Succeed that stores the list whether the cache is on or off
SucceedAlwaysStores(p, resp) ==
  LET a == call[p]
      processed == processRerankResults(resp.results, Contents[a.content].docs,
                                        a.threshold, a.includeOriginalScores)
      h == [born |-> inserted + 1, raw |-> resp.results,
            by |-> [content |-> a.content,
                    includeOriginalScores |-> a.includeOriginalScores]]
  IN  /\ resp.kind = "ok"
      /\ processed.ok
      /\ pc' = [pc EXCEPT ![p] = "done"]
      /\ out' = [out EXCEPT ![p] = [error |-> "", description |-> "", list |-> processed.list]]
      /\ rerankCache' = setCachedResult(rerankCache, a.key, processed.list, now, h)
      /\ inserted' = IF HasKey(rerankCache, a.key) THEN inserted ELSE inserted + 1
      /\ last' = NoLast

\* the response is processed, stored when the cache is on, and returned
Succeed(p, resp) ==
  LET a == call[p]
      processed == processRerankResults(resp.results, Contents[a.content].docs,
                                        a.threshold, a.includeOriginalScores)
      h == [born |-> inserted + 1, raw |-> resp.results,
            by |-> [content |-> a.content,
                    includeOriginalScores |-> a.includeOriginalScores]]
  IN  /\ resp.kind = "ok"
      /\ processed.ok
      /\ pc' = [pc EXCEPT ![p] = "done"]
      /\ out' = [out EXCEPT ![p] = [error |-> "", description |-> "", list |-> processed.list]]
      /\ IF a.enableCache
         THEN /\ rerankCache' = setCachedResult(rerankCache, a.key,
                                                processed.list, now, h)
              /\ inserted' = IF HasKey(rerankCache, a.key) THEN inserted
                             ELSE inserted + 1
              /\ last' = [follower |-> 0, key |-> a.key,
                          threshold |-> a.threshold, topK |-> a.topK,
                          template |-> a.template,
                          list |-> processed.list, storedAt |-> now]
         ELSE /\ UNCHANGED <<rerankCache, inserted>>
              /\ last' = NoLast

Respond(p, responses) ==
  /\ Quiet
  /\ pc[p] = "waiting"
  /\ \E resp \in responses : Fail(p, resp) \/ Succeed(p, resp)
  /\ call' = [q \in Procs |->
                IF q = p
                THEN [call[p] EXCEPT !.evicted = Evicted(rerankCache, rerankCache')]
                ELSE Raced(Disturbed(call[q]),
                           pc'[p] = "done" /\ call[p].enableCache, call[p].key)]
  /\ UNCHANGED <<now, budget>>

\* the promise settles: the caller has the list or the error
Return(p) ==
  /\ pc[p] \in {"done", "failed"}
  /\ pc' = [pc EXCEPT ![p] = "idle"]
  /\ call' = [call EXCEPT ![p] = NoCall]
  /\ out' = [out EXCEPT ![p] = NoOut]
  /\ last' = IF last # NoLast /\ last.follower = 0 THEN last ELSE NoLast
  /\ UNCHANGED <<rerankCache, now, inserted, budget>>

\* clearCache()
clearCache ==
  /\ Quiet
  /\ rerankCache # << >>
  /\ rerankCache' = << >>
  /\ call' = [q \in Procs |-> Disturbed(call[q])]
  /\ last' = NoLast
  /\ UNCHANGED <<now, pc, out, inserted, budget>>

\* time passes, a minute at a time, up to the given number of minutes
Tick(minutes) ==
  /\ Quiet
  /\ now < minutes * 60 * 1000
  /\ now' = now + 60 * 1000
  /\ last' = IF last # NoLast /\ last.follower = 0 THEN last ELSE NoLast
  /\ UNCHANGED <<rerankCache, pc, call, out, inserted, budget>>

\* calls one after the other
Next ==
  \/ \E p \in OneSlot : Start(p, MainCalls)
  \/ \E p \in OneSlot : Respond(p, Responses)
  \/ \E p \in OneSlot : Return(p)
  \/ clearCache
  \/ Tick(MaxTicks)

Spec == Init(MaxCalls) /\ [][Next]_vars

(***************************************************************************)
(* Overlapping calls: two slots, calls that differ in content only         *)
(***************************************************************************)
MaxRaceCalls == 3

\* two responses with different scores, and a rejected request
PlainResponses ==
  { [kind |-> "transport", results |-> Undefined],
    [kind |-> "ok",
     results |-> Arr(<<Raw(1, "relevance_score", 3), Raw(0, "relevance_score", 9)>>)],
    [kind |-> "ok",
     results |-> Arr(<<Raw(1, "score", 9), Raw(0, "score", 9)>>)] }

NextRace ==
  \/ \E p \in Procs : Start(p, PlainCalls)
  \/ \E p \in Procs : Respond(p, PlainResponses)
  \/ \E p \in Procs : Return(p)
  \/ clearCache
  \/ Tick(MaxTicks)

SpecRace == Init(MaxRaceCalls) /\ [][NextRace]_vars

(***************************************************************************)
(* A cache at its size limit: the Map after a thousand stored calls        *)
(***************************************************************************)
MaxFullCalls == 3

MaxFullTicks == 1

\* one response with results, and a rejected request
FullResponses ==
  { [kind |-> "transport", results |-> Undefined],
    [kind |-> "ok",
     results |-> Arr(<<Raw(1, "relevance_score", 3), Raw(0, "relevance_score", 9)>>)] }

\* the key of the i-th earlier call, in the format of createCacheKey
FillerKey(i) ==
  Join(<<OpenAIService, ModelM, ToString36(i), ToString36(i)>>, Colon)

\* the entry the i-th earlier call stored (its response held no results)
Filler(i) ==
  [key |-> FillerKey(i), results |-> << >>, timestamp |-> 0, born |-> i,
   raw |-> Arr(<< >>),
   by |-> [content |-> "none", includeOriginalScores |-> FALSE],
   writes |-> 1]

\* the entry a call on content "one" stored as the first insertion
FirstOne ==
  setCachedResult(<< >>, KeyOf["one"],
                  processRerankResults(
                    Arr(<<Raw(1, "relevance_score", 3), Raw(0, "relevance_score", 9)>>),
                    Contents["one"].docs, 0 - 1, FALSE).list,
                  0,
                  [born |-> 1,
                   raw |-> Arr(<<Raw(1, "relevance_score", 3),
                                 Raw(0, "relevance_score", 9)>>),
                   by |-> [content |-> "one", includeOriginalScores |-> FALSE]])

\* the entry of content "one" after the put of a second call on content
\* "one" that was in flight with the first and got its response a minute
\* later
OverwrittenOne ==
  setCachedResult(FirstOne, KeyOf["one"],
                  processRerankResults(
                    Arr(<<Raw(1, "score", 9), Raw(0, "score", 9)>>),
                    Contents["one"].docs, 0 - 1, FALSE).list,
                  60 * 1000,
                  [born |-> 1,
                   raw |-> Arr(<<Raw(1, "score", 9), Raw(0, "score", 9)>>),
                   by |-> [content |-> "one", includeOriginalScores |-> FALSE]])

\* one entry short of the limit; at the limit with a key that later calls
\* look up in first place; the same after a second put on that key, made
\* when the other entries were in the cache
FullCaches ==
  { [i \in 1..(CacheLimit - 1) |-> Filler(i)],
    FirstOne \o [i \in 1..(CacheLimit - 1) |-> Filler(i + 1)],
    OverwrittenOne \o [i \in 1..(CacheLimit - 1) |-> Filler(i + 1)] }

\* the time of the latest put
Newest(cache) ==
  IF \E i \in 1..Len(cache) : cache[i].timestamp > 0 THEN 60 * 1000 ELSE 0

InitFull ==
  /\ rerankCache \in FullCaches
  /\ now = Newest(rerankCache)
  /\ pc = [p \in Procs |-> "idle"]
  /\ call = [p \in Procs |-> NoCall]
  /\ out = [p \in Procs |-> NoOut]
  /\ inserted = Len(rerankCache)
  /\ budget = MaxFullCalls
  /\ last = NoLast

NextFull ==
  \/ \E p \in Procs : Start(p, PlainCalls)
  \/ \E p \in Procs : Respond(p, FullResponses)
  \/ \E p \in Procs : Return(p)
  \/ clearCache
  \/ Tick(MaxFullTicks)

SpecFull == InitFull /\ [][NextFull]_vars

(***************************************************************************)
(* Calls whose queries or documents differ: one slot                       *)
(***************************************************************************)
MaxKeyCalls == 2

\* calls that differ in the query, in the order of the documents or in
\* the backend
KeyCalls ==
  Arguments({"four", "five", "six", "seven", "eight"}, {2}, {0 - 1}, {TRUE},
            {1}, {"cohereApi", "none"})

NextKeys ==
  \/ \E p \in OneSlot : Start(p, KeyCalls)
  \/ \E p \in OneSlot : Respond(p, PlainResponses)
  \/ \E p \in OneSlot : Return(p)
  \/ clearCache
  \/ Tick(MaxTicks)

SpecKeys == Init(MaxKeyCalls) /\ [][NextKeys]_vars

(***************************************************************************)
(* Responses of every shape: one slot, the cache on                        *)
(***************************************************************************)
MaxScoreCalls == 2

MaxScoreTicks == 1

\* a threshold below zero, zero, and one above zero
ScoreThresholds == {0 - 1, 0, 5}

ScoreCalls ==
  ArgumentsWith({"one", "three"}, {2}, ScoreThresholds, BOOLEAN, {TRUE}, {1},
                {"cohereApi", "none"})

\* the score texts "high" and "0.9"
TextHigh == Str(<<104, 105, 103, 104>>)

TextPointNine == Str(<<48, 46, 57>>)

\* values of response.results: an entry without any score field; scores
\* that are strings; numeric scores; no list at all
ScoreResults ==
  { Arr(<<Obj(<<P("index", Num(0))>>), Raw(1, "relevance_score", 9)>>),
    Arr(<<Obj(<<P("index", Num(0)), P("relevance_score", TextHigh)>>),
          Obj(<<P("index", Num(1)), P("score", TextPointNine)>>)>>),
    Arr(<<Raw(1, "relevance_score", 3), Raw(0, "relevance_score", 9)>>),
    Undefined,
    Str(<<120>>) }

ScoreResponses == ResponsesOf(ScoreResults)

NextScores ==
  \/ \E p \in OneSlot : Start(p, ScoreCalls)
  \/ \E p \in OneSlot : Respond(p, ScoreResponses)
  \/ \E p \in OneSlot : Return(p)
  \/ clearCache
  \/ Tick(MaxScoreTicks)

SpecScores == Init(MaxScoreCalls) /\ [][NextScores]_vars

(***************************************************************************)
(* Calls whose responses carry indexes of every kind                       *)
(***************************************************************************)
MaxIndexCalls == 2

MaxIndexTicks == 1

IndexCalls ==
  ArgumentsWith({"one", "three"}, {2}, {0 - 1}, BOOLEAN, {TRUE}, {1},
                {"cohereApi", "none"})

\* a number that is not an integer, in tenths
Fraction(tenths) == [t |-> "fraction", tenths |-> tenths]

\* the index texts "x" and "1"
TextX == Str(<<120>>)

TextDigitOne == Str(<<49>>)

\* index values: negative, beyond the end, not an integer (1.5), a text,
\* the text of an index, absent
Indexes == {Num(0 - 1), Num(5), Fraction(15), TextX, TextDigitOne, Undefined}

\* values of response.results: one entry in range and one entry with an
\* index of each kind
IndexResults ==
  { Arr(<<Raw(0, "relevance_score", 3),
          Obj(<<P("index", i), P("relevance_score", Num(9))>>)>>) :
      i \in Indexes }

IndexResponses == ResponsesOf(IndexResults)

NextIndexes ==
  \/ \E p \in OneSlot : Start(p, IndexCalls)
  \/ \E p \in OneSlot : Respond(p, IndexResponses)
  \/ \E p \in OneSlot : Return(p)
  \/ clearCache
  \/ Tick(MaxIndexTicks)

SpecIndexes == Init(MaxIndexCalls) /\ [][NextIndexes]_vars

(***************************************************************************)
(* Calls with one document of every shape                                  *)
(***************************************************************************)
MaxTextCalls == 2

MaxTextTicks == 1

TextCalls ==
  Arguments(DOMAIN Shapes \cup {"three"}, {2}, {0 - 1}, BOOLEAN, {1},
            {"cohereApi", "none"})

\* a response with a result for the first document
TextResponses == ResponsesOf({Arr(<<Raw(0, "relevance_score", 9)>>)})

NextTexts ==
  \/ \E p \in OneSlot : Start(p, TextCalls)
  \/ \E p \in OneSlot : Respond(p, TextResponses)
  \/ \E p \in OneSlot : Return(p)
  \/ clearCache
  \/ Tick(MaxTextTicks)

SpecTexts == Init(MaxTextCalls) /\ [][NextTexts]_vars

(***************************************************************************)
(* Calls on nodes with different template settings                         *)
(***************************************************************************)
MaxTemplateCalls == 2

\* calls of rerankWithOpenAI with every template setting, and of
\* rerankWithCohere
TemplateCalls ==
  { [a EXCEPT !.template = t] :
      a \in Arguments({"one"}, {2}, {0 - 1}, {TRUE}, {1, 2}, {"none"}),
      t \in DOMAIN Templates }
  \cup Arguments({"three"}, {2}, {0 - 1}, {TRUE}, {1, 2}, {"cohereApi", "none"})

NextTemplates ==
  \/ \E p \in OneSlot : Start(p, TemplateCalls)
  \/ \E p \in OneSlot : Respond(p, PlainResponses)
  \/ \E p \in OneSlot : Return(p)
  \/ clearCache
  \/ Tick(MaxTicks)

SpecTemplates == Init(MaxTemplateCalls) /\ [][NextTemplates]_vars

(***************************************************************************)
(* Callers that modify the list they were returned                         *)
(***************************************************************************)
MaxCallerCalls == 2

MaxCallerTicks == 1

CallerCalls ==
  Arguments({"one", "three"}, {1, 2}, {0 - 1}, BOOLEAN, {1},
            {"cohereApi", "none"})

\* the list of a call that computed it with the cache on is the array
\* handed to setCachedResult: the entry and the caller hold the same array;
\* the list of a call served from the cache is the new array made by
\* filter and slice
SameArray(p) ==
  /\ ~call[p].hit
  /\ call[p].enableCache
  /\ HasKey(rerankCache, call[p].key)

\* the caller of slot p removes the last record of the list it was
\* returned (list.pop())
CallerModifies(p) ==
  /\ pc[p] = "done"
  /\ out[p].list # << >>
  /\ out' = [out EXCEPT ![p].list = SubSeq(@, 1, Len(@) - 1)]
  /\ rerankCache' =
       IF SameArray(p)
       THEN [i \in 1..Len(rerankCache) |->
               IF rerankCache[i].key = call[p].key
               THEN [rerankCache[i] EXCEPT !.results = out'[p].list]
               ELSE rerankCache[i]]
       ELSE rerankCache
  /\ call' = [q \in Procs |-> IF q = p THEN call[p] ELSE Disturbed(call[q])]
  /\ last' = NoLast
  /\ UNCHANGED <<now, pc, inserted, budget>>

NextCallers ==
  \/ \E p \in OneSlot : Start(p, CallerCalls)
  \/ \E p \in OneSlot : Respond(p, PlainResponses)
  \/ \E p \in OneSlot : CallerModifies(p)
  \/ \E p \in OneSlot : Return(p)
  \/ clearCache
  \/ Tick(MaxCallerTicks)

SpecCallers == Init(MaxCallerCalls) /\ [][NextCallers]_vars

(***************************************************************************)
(* Calls with different TTLs on a cache that holds an entry                *)
(***************************************************************************)
MaxTtlCalls == 2

MaxTtlTicks == 1

TtlCalls ==
  Arguments({"one", "three"}, {2}, {0 - 1}, {TRUE}, CacheTtls,
            {"cohereApi", "none"})

\* an earlier call on content "one" stored its entry at time 0
InitTtl ==
  /\ rerankCache = FirstOne
  /\ now = 0
  /\ pc = [p \in Procs |-> "idle"]
  /\ call = [p \in Procs |-> NoCall]
  /\ out = [p \in Procs |-> NoOut]
  /\ inserted = 1
  /\ budget = MaxTtlCalls
  /\ last = NoLast

NextTtl ==
  \/ \E p \in Procs : Start(p, TtlCalls)
  \/ \E p \in Procs : Respond(p, FullResponses)
  \/ \E p \in Procs : Return(p)
  \/ clearCache
  \/ Tick(MaxTtlTicks)

SpecTtl == InitTtl /\ [][NextTtl]_vars

(***************************************************************************)
(* Calls whose documents have the same texts and different other fields    *)
(***************************************************************************)
MaxFieldCalls == 2

FieldCalls ==
  ArgumentsWith({"one", "two", "three"}, {2}, {0 - 1}, BOOLEAN, {TRUE}, {1},
                {"cohereApi", "none"})

NextFields ==
  \/ \E p \in OneSlot : Start(p, FieldCalls)
  \/ \E p \in OneSlot : Respond(p, PlainResponses)
  \/ \E p \in OneSlot : Return(p)
  \/ clearCache
  \/ Tick(MaxTicks)

SpecFields == Init(MaxFieldCalls) /\ [][NextFields]_vars

(***************************************************************************)
(* Calls on nodes with either, both or none of the Cohere credentials      *)
(***************************************************************************)
MaxCredentialCalls == 2

ConfiguredCredentials == {"cohereApi", "cohereRerankerApi", "both", "none"}

CredentialCalls ==
  Arguments({"one", "three"}, {2}, {0 - 1}, BOOLEAN, {1}, ConfiguredCredentials)

NextCredentials ==
  \/ \E p \in OneSlot : Start(p, CredentialCalls)
  \/ \E p \in OneSlot : Respond(p, PlainResponses)
  \/ \E p \in OneSlot : Return(p)
  \/ clearCache
  \/ Tick(MaxTicks)

SpecCredentials == Init(MaxCredentialCalls) /\ [][NextCredentials]_vars

(***************************************************************************)
(* Calls through the Flow node's execute and the Provider's rerank         *)
(***************************************************************************)
MaxNodeCalls == 2

\* the node parameters of calls through execute and through the
\* Provider's rerank
NodeArguments ==
  { [a EXCEPT !.entry = "flow"] :
      a \in Arguments({"one", "three"}, {2}, {0 - 1}, {TRUE}, {1},
                      {"cohereApi", "none"}) }
  \cup { [a EXCEPT !.entry = "provider", !.documents = Arr(DocsOne)] :
           a \in Arguments({"nine"}, {2}, {0 - 1}, {TRUE}, {1}, {"none"}) }

\* no query, the empty query, queries of white space only
BlankQueries == {Undefined, Str(<< >>), Str(<<32>>), Str(<<32, 9, 10>>)}

\* no documents, null, a text, an object
NoLists == {Undefined, Null, TextA, Obj(<<P("text", TextB)>>)}

\* a query and documents to rerank, and the same with a blank query, with
\* no list of documents, with an empty list
NodeInputs ==
  NodeArguments
  \cup { [a EXCEPT !.query = q] : a \in NodeArguments, q \in BlankQueries }
  \cup { [a EXCEPT !.documents = d] :
           a \in NodeArguments, d \in NoLists \cup {Arr(<< >>)} }

NextNode ==
  \/ \E p \in OneSlot : NodeStart(p, NodeInputs)
  \/ \E p \in OneSlot : Respond(p, PlainResponses)
  \/ \E p \in OneSlot : Return(p)
  \/ clearCache
  \/ Tick(MaxTicks)

SpecNode == Init(MaxNodeCalls) /\ [][NextNode]_vars

(***************************************************************************)
(* Properties                                                              *)
(***************************************************************************)
Score(doc) == Get(doc, "_rerankScore").n

\* the key has an entry whose age at time t is below m minutes
Fresh(cache, key, m, t) ==
  \E i \in 1..Len(cache) :
    cache[i].key = key /\ t - cache[i].timestamp < m * 60000

\* the cache without the entry of the key
Without(cache, key) == SelectSeq(cache, LAMBDA e : e.key # key)

\* the entries the key has in the cache
Holds(cache, key) == SelectSeq(cache, LAMBDA e : e.key = key)

\* this step, slot p starts a call that gets as far as the cache lookup
LooksUp(p) ==
  /\ pc[p] = "idle"
  /\ pc'[p] # "idle"
  /\ call'[p].enableCache
  /\ out'[p].error # "credentials"

\* this step, the call of slot p stores its list
Stores(p) ==
  /\ pc[p] = "waiting"
  /\ pc'[p] = "done"
  /\ call[p].enableCache

\* the second of two calls that ran one after the other, the first having
\* stored its entry, both with the cache on
Follows(q) ==
  /\ last # NoLast
  /\ last.follower = q
  /\ pc[q] # "idle"
  /\ out[q].error # "credentials"
  /\ call[q].enableCache

(* C1: with the cache on, when two calls with the same backend, model,     *)
(* query and document texts run one after the other and the second looks   *)
(* the cache up less than cacheTtl minutes after the first stored its      *)
(* entry, the second issues no remote call, and with the same threshold    *)
(* and topK it returns a list equal to the first call's.                   *)
C1_SecondCallEqualsFirst ==
  \A q \in Procs :
    ( /\ Follows(q)
      /\ call[q].key = last.key
      /\ call[q].lookedUpAt - last.storedAt < call[q].cacheTtl * 60000 )
    => /\ pc[q] = "done"
       /\ call[q].remoteCalls = 0
       /\ (call[q].threshold = last.threshold /\ call[q].topK = last.topK)
            => out[q].list = last.list

(* C2: a lookup is served from the cache exactly when the key has an entry *)
(* with now - timestamp < cacheTtl * 60000; a call that looks up an entry  *)
(* whose age has reached the TTL removes that entry and nothing else and   *)
(* sends exactly one remote request; when that call then returns a list,   *)
(* the key is stored once again, with that list and the time of the store. *)
C2_ExpiryAndRefresh ==
  [][ \A p \in Procs :
        /\ LooksUp(p) =>
              LET c == call'[p]
                  fresh == Fresh(rerankCache, c.key, c.cacheTtl, now)
              IN  /\ c.hit <=> fresh
                  /\ fresh =>
                        /\ pc'[p] = "done"
                        /\ c.remoteCalls = 0
                        /\ rerankCache' = rerankCache
                  /\ ~fresh =>
                        /\ pc'[p] = "waiting"
                        /\ c.remoteCalls = 1
                        /\ rerankCache' = Without(rerankCache, c.key)
                        /\ c.expired <=> Holds(rerankCache, c.key) # << >>
        /\ (Stores(p) /\ call[p].expired) =>
              /\ call[p].remoteCalls = 1
              /\ Len(Holds(rerankCache', call[p].key)) = 1
              /\ Holds(rerankCache', call[p].key)[1].results = out'[p].list
              /\ Holds(rerankCache', call[p].key)[1].timestamp = now
    ]_vars

\* a call found its entry expired, asked the remote service and stored the
\* list again
C2_Witness ==
  \E p \in Procs :
    /\ pc[p] = "done"
    /\ call[p].expired
    /\ ~call[p].hit
    /\ call[p].remoteCalls = 1
    /\ now > 0
    /\ HasKey(rerankCache, call[p].key)
    /\ Entry(rerankCache, call[p].key).timestamp = now
    /\ Entry(rerankCache, call[p].key).results = out[p].list

(* C3: in every reachable state the cache holds at most 1000 entries.      *)
C3_AtMostLimit == Len(rerankCache) <= CacheLimit

\* a key was inserted into a cache that held 1000 entries
C3_Witness ==
  /\ Len(rerankCache) = CacheLimit
  /\ inserted > CacheLimit
  /\ rerankCache[CacheLimit].born = inserted

(* C4: a put of a new key on a cache of 1000 entries removes exactly one   *)
(* entry, the one whose key was inserted first, whatever the timestamps    *)
(* of the entries and whichever of them was looked up; the other entries   *)
(* keep their order and the new key comes last, so 1000 entries remain.    *)
C4_EvictsFirstInserted ==
  [][ \A p \in Procs :
        ( /\ Stores(p)
          /\ Holds(rerankCache, call[p].key) = << >>
          /\ Len(rerankCache) = CacheLimit )
        => /\ Len(rerankCache') = CacheLimit
           /\ \A i \in 1..Len(rerankCache) :
                 rerankCache[1].born <= rerankCache[i].born
           /\ Holds(rerankCache', rerankCache[1].key) = << >>
           /\ SubSeq(rerankCache', 1, CacheLimit - 1) = Tail(rerankCache)
           /\ rerankCache'[CacheLimit].key = call[p].key
    ]_vars

\* the 1001st key went in and the key inserted first, which later calls
\* could still look up, is gone
C4_Witness ==
  /\ inserted = CacheLimit + 1
  /\ Len(rerankCache) = CacheLimit
  /\ ~HasKey(rerankCache, KeyOf["one"])
  /\ HasKey(rerankCache, KeyOf["three"])
  /\ rerankCache[1] = Filler(2)
  /\ budget = 0

(* C5: a hit returns the list a fresh call with the same threshold and     *)
(* topK on the same content returns when the remote service sends the      *)
(* response the entry was computed from and honours top_n.                 *)
C5_HitEqualsFresh ==
  \A p \in Procs :
    (pc[p] = "done" /\ call[p].hit /\ HasKey(rerankCache, call[p].key)) =>
      LET e     == Entry(rerankCache, call[p].key)
          fresh == processRerankResults(e.raw, Contents[call[p].content].docs,
                                        call[p].threshold,
                                        call[p].includeOriginalScores).list
          k     == IF call[p].topK < Len(fresh) THEN call[p].topK ELSE Len(fresh)
      IN  out[p].list = SubSeq(fresh, 1, k)

(* C6: a call that returns successfully returns at most topK results, on   *)
(* the cache-hit path and on the fresh path.                               *)
C6_AtMostTopK ==
  \A p \in Procs : pc[p] = "done" => Len(out[p].list) <= call[p].topK

(* C7: every result a successful call returns, from the cache or fresh,    *)
(* has _rerankScore >= the threshold of that call.                         *)
C7_ScoresAtLeastThreshold ==
  \A p \in Procs :
    pc[p] = "done" =>
      \A i \in 1..Len(out[p].list) : Score(out[p].list[i]) >= call[p].threshold

\* a cache hit whose threshold removed part of the cached list
C7_Witness ==
  \E p \in Procs :
    /\ pc[p] = "done"
    /\ call[p].hit
    /\ call[p].threshold = 5
    /\ Len(out[p].list) = 1
    /\ Len(Entry(rerankCache, call[p].key).results) = 2

(* C8: the list a successful call returns, from the cache or fresh, is     *)
(* ordered non-increasingly by _rerankScore.                               *)
C8_SortedDescending ==
  \A p \in Procs :
    pc[p] = "done" =>
      \A i, j \in 1..Len(out[p].list) :
        i < j => Score(out[p].list[i]) >= Score(out[p].list[j])

\* a fresh call whose response came with the lower score first
C8_Witness ==
  \E p \in Procs :
    /\ pc[p] = "done"
    /\ ~call[p].hit
    /\ call[p].enableCache
    /\ Len(out[p].list) = 2
    /\ LET raw == Entry(rerankCache, call[p].key).raw.items
       IN  resolvedScore(raw[1]).n < resolvedScore(raw[2]).n

(* C9: a call with the cache on that fails after its lookup leaves the     *)
(* cache exactly as it was before the call.                                *)
C9_CacheUnchangedOnFailure ==
  \A p \in Procs :
    ( /\ pc[p] = "failed"
      /\ out[p].error # "credentials"
      /\ call[p].enableCache
      /\ call[p].alone )
    => rerankCache = call[p].before

(* C9, amended: a call with the cache on that fails after its lookup       *)
(* leaves the cache as it was before the call, except that the entry of    *)
(* its own key is gone when that entry had reached the call's TTL: no      *)
(* entry is written or changed, and no other key is removed.               *)
C9_OnlyExpiredEntryRemoved ==
  \A p \in Procs :
    ( /\ pc[p] = "failed"
      /\ out[p].error # "credentials"
      /\ call[p].enableCache
      /\ call[p].alone )
    => rerankCache =
         SelectSeq(call[p].before,
                   LAMBDA e : \/ e.key # call[p].key
                              \/ call[p].lookedUpAt - e.timestamp
                                   < call[p].cacheTtl * 60000)

\* a failed call whose lookup removed its expired entry
C9_Witness ==
  \E p \in Procs :
    /\ pc[p] = "failed"
    /\ out[p].error = "NodeApiError: Request failed"
    /\ call[p].enableCache
    /\ call[p].alone
    /\ call[p].expired
    /\ HasKey(call[p].before, call[p].key)
    /\ ~HasKey(rerankCache, call[p].key)

(* C10: of two calls with the cache on and the same key that are both in   *)
(* flight before either completes, neither is served from the cache.       *)
C10_BothMiss ==
  \A p, q \in Procs :
    ( /\ p # q
      /\ pc[p] = "waiting"
      /\ call[p].enableCache
      /\ pc[q] \in {"waiting", "done"}
      /\ call[q].enableCache
      /\ call[q].key = call[p].key )
    => ~call[q].hit

(* C10, amended: when a call with the cache on starts while another call   *)
(* with the cache on and the same key is in flight, and no call has        *)
(* stored that key since the other call's lookup, the starting call        *)
(* misses the cache and sends its own remote request; each of the calls    *)
(* that returns a list writes the key, and after each such write the       *)
(* cache holds a single entry for the key, carrying the list and the time  *)
(* of that write, so the later write is the one that stays.                *)
C10_OverlappingCalls ==
  [][ \A q \in Procs :
        /\ ( /\ LooksUp(q)
             /\ \E p \in Procs \ {q} :
                   /\ pc[p] = "waiting"
                   /\ call[p].enableCache
                   /\ call[p].key = call'[q].key
                   /\ ~call[p].raced )
           => /\ ~call'[q].hit
              /\ pc'[q] = "waiting"
              /\ call'[q].remoteCalls = 1
        /\ Stores(q)
           => /\ Len(Holds(rerankCache', call[q].key)) = 1
              /\ Holds(rerankCache', call[q].key)[1].results = out'[q].list
              /\ Holds(rerankCache', call[q].key)[1].timestamp = now
    ]_vars

\* two overlapping calls on one key have both written: the one entry of
\* the key is the second write, made after time has passed
C10_Witness ==
  \E q \in Procs :
    /\ pc[q] = "done"
    /\ ~call[q].hit
    /\ call[q].enableCache
    /\ ~call[q].alone
    /\ call[q].raced
    /\ now > call[q].lookedUpAt
    /\ Len(Holds(rerankCache, call[q].key)) = 1
    /\ Entry(rerankCache, call[q].key).writes = 2
    /\ Entry(rerankCache, call[q].key).timestamp = now
    /\ Entry(rerankCache, call[q].key).results = out[q].list

\* the number of components (backend, model, query, document texts) in
\* which two contents differ
Differences(c, d) ==
  Cardinality({ x \in {"service", "model", "query", "texts"} :
    CASE x = "service" -> Contents[c].service # Contents[d].service
      [] x = "model" -> Contents[c].model # Contents[d].model
      [] x = "query" -> Contents[c].query # Contents[d].query
      [] OTHER -> documentTexts(Contents[c].docs) # documentTexts(Contents[d].docs) })

(* C11: a call whose inputs differ from those of a stored call in exactly  *)
(* one of backend, model, query and document texts has a cache key         *)
(* different from the stored entry's, and so is not served from it.        *)
C11_DifferentInputsDifferentKeys ==
  \A p \in Procs :
    (pc[p] \in {"waiting", "done"} /\ call[p].enableCache) =>
      \A i \in 1..Len(rerankCache) :
        Differences(call[p].content, rerankCache[i].by.content) = 1
          => rerankCache[i].key # call[p].key

(* C12: contents on different backends never have the same cache key, and  *)
(* a call is never served from an entry that a call on the other backend   *)
(* wrote.                                                                  *)
C12_BackendsNeverShare ==
  /\ \A c, d \in ContentIds :
        Contents[c].service # Contents[d].service => KeyOf[c] # KeyOf[d]
  /\ \A p \in Procs :
        (pc[p] \in {"waiting", "done"} /\ call[p].enableCache) =>
          \A i \in 1..Len(rerankCache) :
            Contents[rerankCache[i].by.content].service
                # Contents[call[p].content].service
              => rerankCache[i].key # call[p].key
  /\ \A p \in Procs :
        (pc[p] = "done" /\ call[p].hit) =>
          /\ HasKey(rerankCache, call[p].key)
          /\ Contents[Entry(rerankCache, call[p].key).by.content].service
               = Contents[call[p].content].service

\* a Cohere call misses although the openai-compatible call with the same
\* model, query and documents has a fresh entry
C12_Witness ==
  \E p \in Procs :
    /\ pc[p] = "waiting"
    /\ call[p].content = "three"
    /\ call[p].enableCache
    /\ ~call[p].expired
    /\ call[p].remoteCalls = 1
    /\ Fresh(rerankCache, KeyOf["one"], call[p].cacheTtl, now)

(* C13: a call with the cache off that gets past its credentials always    *)
(* sends a remote request, whatever the cache holds, and neither its       *)
(* start nor its end changes the cache.                                    *)
C13_DisabledCacheUntouched ==
  [][ \A p \in Procs :
        /\ ( /\ pc[p] = "idle"
             /\ pc'[p] # "idle"
             /\ ~call'[p].enableCache
             /\ out'[p].error # "credentials" )
           => /\ pc'[p] = "waiting"
              /\ ~call'[p].hit
              /\ call'[p].remoteCalls = 1
              /\ rerankCache' = rerankCache
        /\ ( /\ pc[p] = "waiting"
             /\ pc'[p] \in {"done", "failed"}
             /\ ~call[p].enableCache )
           => rerankCache' = rerankCache
    ]_vars

\* a call with the cache off asked the remote service although a fresh
\* entry of its key was there, and left the cache as it found it
C13_Witness ==
  \E p \in Procs :
    /\ pc[p] = "done"
    /\ ~call[p].enableCache
    /\ ~call[p].hit
    /\ call[p].remoteCalls = 1
    /\ call[p].alone
    /\ Fresh(call[p].before, call[p].key, call[p].cacheTtl, call[p].lookedUpAt)
    /\ rerankCache = call[p].before

\* the call of slot p has returned the list it computed from a response,
\* and the entry it stored shows that response
FreshFrom(p) ==
  /\ pc[p] = "done"
  /\ ~call[p].hit
  /\ call[p].enableCache
  /\ HasKey(rerankCache, call[p].key)

ResponseOf(p) == Entry(rerankCache, call[p].key).raw.items

\* the returned records that come from the raw result entry r
ReturnedFor(p, r) ==
  SelectSeq(out[p].list, LAMBDA d : Get(d, "_originalIndex") = Get(r, "index"))

(* C14: a raw result entry with neither relevance_score nor score is left  *)
(* out when the threshold is above 0 and is returned once, with            *)
(* _rerankScore 0, when the threshold is 0 or below.                       *)
C14_MissingScoreIsZero ==
  \A p \in Procs :
    FreshFrom(p) =>
      \A i \in 1..Len(ResponseOf(p)) :
        LET r == ResponseOf(p)[i]
        IN  (~HasField(r, "relevance_score") /\ ~HasField(r, "score")) =>
              IF call[p].threshold > 0
              THEN ReturnedFor(p, r) = << >>
              ELSE /\ Len(ReturnedFor(p, r)) = 1
                   /\ Get(ReturnedFor(p, r)[1], "_rerankScore") = Num(0)

\* a call with threshold 0 returned the entry that had no score field
C14_Witness ==
  \E p \in Procs :
    /\ FreshFrom(p)
    /\ call[p].threshold = 0
    /\ \E i \in 1..Len(ResponseOf(p)) :
         /\ ~HasField(ResponseOf(p)[i], "relevance_score")
         /\ ~HasField(ResponseOf(p)[i], "score")
         /\ Len(ReturnedFor(p, ResponseOf(p)[i])) = 1
    /\ \E j \in 1..Len(out[p].list) :
         Get(out[p].list[j], "_rerankScore") = Num(0)

(* C15: a raw result entry whose score is a string is left out when the    *)
(* threshold is above 0 and is returned once, with _rerankScore 0, when    *)
(* the threshold is 0 or below; every returned _rerankScore is a number.   *)
C15_NonNumericScoreIsZero ==
  \A p \in Procs :
    FreshFrom(p) =>
      /\ \A i \in 1..Len(ResponseOf(p)) :
            LET r == ResponseOf(p)[i]
            IN  resolvedScore(r).t = "string" =>
                  IF call[p].threshold > 0
                  THEN ReturnedFor(p, r) = << >>
                  ELSE /\ Len(ReturnedFor(p, r)) = 1
                       /\ Get(ReturnedFor(p, r)[1], "_rerankScore") = Num(0)
      /\ \A j \in 1..Len(out[p].list) :
            Get(out[p].list[j], "_rerankScore").t = "number"

\* the call of slot p came through the Flow node or the Provider
ThroughNode(p) == call[p] # NoCall /\ call[p].entry \in {"flow", "provider"}

(* C16: a call through execute or through the Provider's rerank with no    *)
(* query, an empty query or a query of white space only has failed with    *)
(* the error 'Query cannot be empty', has made no remote call, has not     *)
(* looked into the cache, and has left the cache as it was.                *)
C16_BlankQueryFailsFirst ==
  \A p \in Procs :
    (ThroughNode(p) /\ (~Truthy(call[p].query) \/ trim(call[p].query.s) = << >>)) =>
      /\ pc[p] = "failed"
      /\ out[p].error = "NodeOperationError: Query cannot be empty"
      /\ call[p].remoteCalls = 0
      /\ ~call[p].hit
      /\ call[p].alone => rerankCache = call[p].before

\* a call with a query of white space has failed while the cache holds an
\* entry
C16_Witness ==
  \E p \in Procs :
    /\ ThroughNode(p)
    /\ call[p].query = Str(<<32, 9, 10>>)
    /\ pc[p] = "failed"
    /\ rerankCache # << >>

(* C17: a call through execute or through the Provider's rerank with a     *)
(* proper query and with documents that are missing or not a list has      *)
(* failed, without a remote call; it has not returned a list.              *)
C17_NoListIsAnError ==
  \A p \in Procs :
    ( /\ ThroughNode(p)
      /\ Truthy(call[p].query) /\ trim(call[p].query.s) # << >>
      /\ call[p].documents.t # "array" ) =>
      /\ pc[p] = "failed"
      /\ out[p].error # ""
      /\ call[p].remoteCalls = 0

(* C18: a call whose response carries no results list fails, and the       *)
(* class and message of its error differ from those of the error a         *)
(* rejected request of the same backend ends in; a call that returns a     *)
(* list has computed it from a results list.                               *)
C18_InvalidResultsDistinguishable ==
  \A p \in Procs :
    /\ ( /\ pc[p] = "failed"
         /\ out[p].description
              = "Invalid reranking results: expected array of results" )
       => out[p].error # requestFailed(Contents[call[p].content].service)
    /\ FreshFrom(p) => Entry(rerankCache, call[p].key).raw.t = "array"

(* C19: a Cohere call goes on with cohereApi whenever cohereApi resolves,  *)
(* with cohereRerankerApi only when cohereApi does not resolve, and when   *)
(* neither resolves it fails without a remote request.                     *)
C19_CredentialFallback ==
  \A p \in Procs :
    (call[p] # NoCall /\ Contents[call[p].content].service = CohereService) =>
      /\ Resolves(call[p].credentials, "cohereApi")
           => call[p].credential = "cohereApi"
      /\ call[p].credential = "cohereRerankerApi"
           => /\ ~Resolves(call[p].credentials, "cohereApi")
              /\ Resolves(call[p].credentials, "cohereRerankerApi")
      /\ ( /\ ~Resolves(call[p].credentials, "cohereApi")
           /\ ~Resolves(call[p].credentials, "cohereRerankerApi") )
           => /\ pc[p] = "failed"
              /\ out[p].error = "credentials"
              /\ call[p].remoteCalls = 0
              /\ ~call[p].hit
      /\ call[p].remoteCalls = 1 => call[p].credential # "none"

\* a Cohere call on a node with only the legacy credential has sent its
\* request with it and returned
C19_Witness ==
  \E p \in Procs :
    /\ pc[p] = "done"
    /\ Contents[call[p].content].service = CohereService
    /\ call[p].credentials = "cohereRerankerApi"
    /\ call[p].credential = "cohereRerankerApi"
    /\ call[p].remoteCalls = 1

(* C20: a returned record has an _originalScore field exactly when the     *)
(* call's includeOriginalScores is on and the document at the record's     *)
(* _originalIndex has one, for a computed list and for a list from the     *)
(* cache.                                                                  *)
C20_OriginalScoreOnlyWhenAsked ==
  \A p \in Procs :
    pc[p] = "done" =>
      \A j \in 1..Len(out[p].list) :
        LET d   == out[p].list[j]
            src == DocAt(Contents[call[p].content].docs, Get(d, "_originalIndex"))
        IN  HasField(d, "_originalScore")
              <=> (call[p].includeOriginalScores /\ HasField(src, "_originalScore"))

(* C21: a call fails only when its request failed: whatever the indexes of *)
(* the raw result entries, a call whose response carries a results list    *)
(* returns a list, and a returned record whose index names no document has *)
(* no fields but _rerankScore and _originalIndex.                          *)
C21_AnyIndexReturnsList ==
  \A p \in Procs :
    /\ pc[p] = "failed"
         => out[p].description \in {"", "response body",
                                    "message of the rejected request"}
    /\ pc[p] = "done" =>
         \A j \in 1..Len(out[p].list) :
           LET d == out[p].list[j]
           IN  DocAt(Contents[call[p].content].docs, Get(d, "_originalIndex"))
                 = Undefined
               => d = Obj(<<P("_rerankScore", Get(d, "_rerankScore")),
                            P("_originalIndex", Get(d, "_originalIndex"))>>)

\* the reference rule for the text of a document: the first truthy field
\* among pageContent, text, content, document, otherwise the serialization
\* of the whole document; the text null for null and for no document
ReferenceText(d) ==
  IF d \in {Null, Undefined} THEN Str(NullText)
  ELSE IF Truthy(Get(d, "pageContent")) THEN Get(d, "pageContent")
  ELSE IF Truthy(Get(d, "text")) THEN Get(d, "text")
  ELSE IF Truthy(Get(d, "content")) THEN Get(d, "content")
  ELSE IF Truthy(Get(d, "document")) THEN Get(d, "document")
  ELSE Str(JSONChars(d))

\* the cache key made of the reference texts
ReferenceKey(c) ==
  Join(<<c.service, c.model, simpleHash(c.query),
         simpleHash(JSONChars(Arr([i \in 1..Len(c.docs) |->
                                     ReferenceText(c.docs[i])])))>>, Colon)

(* C22: for a call whose documents can be serialized, every text of the    *)
(* request body is a string and is the reference text of its document, and *)
(* the cache key is the key made of the reference texts.                   *)
C22_TextIsReferenceText ==
  \A p \in Procs :
    ( /\ call[p] # NoCall
      /\ call[p].remoteCalls = 1
      /\ call[p].template = "off"
      /\ ~textsThrow(Contents[call[p].content].docs) ) =>
      LET c == Contents[call[p].content]
      IN  /\ Len(call[p].body.documents) = Len(c.docs)
          /\ \A i \in 1..Len(c.docs) :
                /\ call[p].body.documents[i].t = "string"
                /\ call[p].body.documents[i] = ReferenceText(c.docs[i])
          /\ call[p].key = ReferenceKey(c)

(* C23: a call with a document that holds itself does not fail before its  *)
(* cache lookup or its remote call: it is served from the cache or it has  *)
(* sent its request.                                                       *)
C23_CyclicDocumentGoesOn ==
  \A p \in Procs :
    ( /\ call[p] # NoCall
      /\ \E i \in 1..Len(Contents[call[p].content].docs) :
            ~Serializes(Contents[call[p].content].docs[i]) ) =>
      call[p].hit \/ call[p].remoteCalls = 1

(* C24: calls with the same content have the same cache key whatever       *)
(* their template settings, and a call that follows a call that stored an  *)
(* entry for its content, and looks the cache up less than cacheTtl        *)
(* minutes after the entry was stored, is served from that entry with no   *)
(* remote call, whatever the template settings of the two calls.           *)
C24_TemplatesShareEntry ==
  /\ \A a, b \in TemplateCalls :
       a.content = b.content => cacheKeyOf(a) = cacheKeyOf(b)
  /\ \A q \in Procs :
       ( /\ Follows(q)
         /\ Contents[call[q].content].service = OpenAIService
         /\ call[q].key = last.key
         /\ call[q].lookedUpAt - last.storedAt < call[q].cacheTtl * 60000 )
       => /\ pc[q] = "done"
          /\ call[q].hit
          /\ call[q].remoteCalls = 0
          /\ call[q].body = NoBody

\* a call with the preset template has been served from the entry of a
\* call with custom prefixes
C24_Witness ==
  \E q \in Procs :
    /\ Follows(q)
    /\ call[q].hit
    /\ call[q].template = "qwen3"
    /\ last.template = "custom"

(* C25: a call that is served from the cache returns the entry's list      *)
(* restricted to the records with _rerankScore >= its threshold, in the    *)
(* entry's order, cut to its first topK records, and leaves the cache as   *)
(* it was: the results, the timestamp and the place of every entry.        *)
C25_HitFiltersAndLeavesEntry ==
  [][ \A p \in Procs :
        (pc[p] = "idle" /\ pc'[p] = "done" /\ call'[p].hit) =>
          LET e    == Entry(rerankCache, call'[p].key)
              kept == SelectSeq(e.results,
                                LAMBDA d : AtLeast(Get(d, "_rerankScore"),
                                                   call'[p].threshold))
              n    == IF call'[p].topK < Len(kept) THEN call'[p].topK
                      ELSE Len(kept)
          IN  /\ HasKey(rerankCache, call'[p].key)
              /\ out'[p].list = SubSeq(kept, 1, n)
              /\ rerankCache' = rerankCache ]_vars

\* a call served from an entry some time after the entry was stored has
\* returned fewer records than the entry holds
C25_Witness ==
  \E p \in Procs :
    /\ pc[p] = "done"
    /\ call[p].hit
    /\ HasKey(rerankCache, call[p].key)
    /\ Entry(rerankCache, call[p].key).timestamp < call[p].lookedUpAt
    /\ Len(out[p].list) < Len(Entry(rerankCache, call[p].key).results)

(* C26: a step in which a caller modifies the list it was returned, by a   *)
(* call that computed it or by a call served from the cache, leaves every  *)
(* entry of the cache as it was.                                           *)
C26_StoredListIsACopy ==
  [][ \A p \in Procs :
        (pc[p] = "done" /\ pc'[p] = "done" /\ out'[p].list # out[p].list)
          => rerankCache' = rerankCache ]_vars

(* C27: a put on a key that is in the cache replaces the results and the   *)
(* timestamp of its entry and leaves every key at its place; and a put of  *)
(* a new key on a cache of 1000 entries removes the entry in first place,  *)
(* the key inserted first, also when that entry has been written again and *)
(* carries the newest timestamp.                                           *)
C27_OverwriteKeepsPlace ==
  [][ \A p \in Procs :
        /\ (Stores(p) /\ HasKey(rerankCache, call[p].key))
           => /\ Len(rerankCache') = Len(rerankCache)
              /\ \A i \in 1..Len(rerankCache) :
                    IF rerankCache[i].key = call[p].key
                    THEN /\ rerankCache'[i].key = call[p].key
                         /\ rerankCache'[i].results = out'[p].list
                         /\ rerankCache'[i].timestamp = now
                         /\ rerankCache'[i].born = rerankCache[i].born
                         /\ rerankCache'[i].writes = rerankCache[i].writes + 1
                    ELSE rerankCache'[i] = rerankCache[i]
        /\ ( /\ Stores(p)
             /\ ~HasKey(rerankCache, call[p].key)
             /\ Len(rerankCache) = CacheLimit )
           => /\ call'[p].evicted = rerankCache[1]
              /\ \A i \in 1..Len(rerankCache) :
                    rerankCache[1].born <= rerankCache[i].born
    ]_vars

\* the put of a new key has removed an entry that had been written twice
\* and was newer than every entry that stays from before the put
C27_Witness ==
  \E p \in Procs :
    /\ pc[p] = "done"
    /\ call[p].evicted # NoEntry
    /\ call[p].evicted.writes = 2
    /\ \A i \in 1..Len(rerankCache) :
          rerankCache[i].key # call[p].key
            => rerankCache[i].timestamp < call[p].evicted.timestamp

\* the record built from raw result entries with the index of d and the
\* documents and includeOriginalScores of the call that stored entry e
BuiltBy(e, d) ==
  { scoredResult(e.raw.items[i], Contents[e.by.content].docs,
                 e.by.includeOriginalScores) :
      i \in { j \in 1..Len(e.raw.items) :
                Get(e.raw.items[j], "index") = Get(d, "_originalIndex") } }

(* C28: contents with the same backend, model, query and document texts    *)
(* have the same key whatever the other fields of their documents, and     *)
(* every record a call served from the cache returns is the record built   *)
(* from the document of the call that stored the entry.                    *)
C28_HitReturnsCreatorsFields ==
  /\ KeyOf["one"] = KeyOf["two"]
  /\ \A p \in Procs :
       (pc[p] = "done" /\ call[p].hit /\ HasKey(rerankCache, call[p].key)) =>
         \A j \in 1..Len(out[p].list) :
           out[p].list[j] \in BuiltBy(Entry(rerankCache, call[p].key),
                                      out[p].list[j])

\* a call whose first document has metadata and no _originalScore was
\* served a record with _originalScore and without metadata, stored by a
\* call with other documents
C28_Witness ==
  \E p \in Procs :
    /\ pc[p] = "done"
    /\ call[p].hit
    /\ call[p].content = "two"
    /\ HasKey(rerankCache, call[p].key)
    /\ Entry(rerankCache, call[p].key).by.content = "one"
    /\ \E j \in 1..Len(out[p].list) :
          /\ Get(out[p].list[j], "_originalIndex") = Num(0)
          /\ HasField(out[p].list[j], "_originalScore")
          /\ ~HasField(out[p].list[j], "metadata")
          /\ out[p].list[j]
               # scoredResult(Raw(0, "relevance_score",
                                  Get(out[p].list[j], "_rerankScore").n),
                              Contents["two"].docs,
                              call[p].includeOriginalScores)

(* C29: a call of rerankWithCohere for which neither credential resolves   *)
(* fails in the step in which it starts, without a lookup and without a    *)
(* remote request, and leaves the cache as it was, also when the cache     *)
(* holds an unexpired entry for its key.                                   *)
C29_CredentialsBeforeLookup ==
  [][ \A p \in Procs :
        ( /\ pc[p] = "idle"
          /\ pc'[p] # "idle"
          /\ Contents[call'[p].content].service = CohereService
          /\ ~Resolves(call'[p].credentials, "cohereApi")
          /\ ~Resolves(call'[p].credentials, "cohereRerankerApi") )
        => /\ pc'[p] = "failed"
           /\ out'[p].error = "credentials"
           /\ ~call'[p].hit
           /\ call'[p].remoteCalls = 0
           /\ rerankCache' = rerankCache ]_vars

\* a call without credentials has failed although the cache is on and
\* holds an unexpired entry for its key
C29_Witness ==
  \E p \in Procs :
    /\ pc[p] = "failed"
    /\ out[p].error = "credentials"
    /\ call[p].enableCache
    /\ Fresh(rerankCache, call[p].key, call[p].cacheTtl, now)

(* C30: a lookup is decided with the cacheTtl of the call that looks up:   *)
(* an entry younger than that TTL is served and stays; an entry whose age  *)
(* has reached that TTL is deleted, whatever the TTL of other calls, and   *)
(* the call sends a remote request; a call that finds no entry for its key *)
(* sends a remote request, whatever its TTL.                               *)
C30_ExpiryByCallersTtl ==
  [][ \A p \in Procs :
        LooksUp(p) =>
          LET key == call'[p].key
              ttl == call'[p].cacheTtl * 60000
          IN  IF HasKey(rerankCache, key)
              THEN IF now - Entry(rerankCache, key).timestamp < ttl
                   THEN /\ call'[p].hit
                        /\ rerankCache' = rerankCache
                   ELSE /\ ~call'[p].hit
                        /\ call'[p].remoteCalls = 1
                        /\ rerankCache' = Without(rerankCache, key)
              ELSE /\ ~call'[p].hit
                   /\ call'[p].remoteCalls = 1
                   /\ rerankCache' = rerankCache ]_vars

\* a call with a TTL of one minute has deleted the entry stored a minute
\* before, and a call with a TTL of two minutes that looked the key up
\* after it, at the same time, has found no entry and sent its request
C30_Witness ==
  \E p, q \in Procs :
    /\ p # q
    /\ pc[p] = "waiting" /\ pc[q] = "waiting"
    /\ call[p].key = call[q].key
    /\ call[p].cacheTtl = 1 /\ call[p].expired
    /\ call[q].cacheTtl = 2 /\ ~call[q].expired /\ call[q].remoteCalls = 1
    /\ call[p].lookedUpAt = 60000 /\ call[q].lookedUpAt = 60000
    /\ inserted = 1
    /\ ~call[p].alone /\ call[q].alone

====
